---- MODULE Spec2Model ----
(***************************************************************************)
(* A model of the chemical_elements crate: the composition store (list and *)
(* map strategies), the theoretical isotopic pattern transforms, and the   *)
(* BRAIN isotopic distribution engine with its constants cache.            *)
(*                                                                         *)
(* f64 values are modelled as exact rationals <<n, d>> (d > 0, reduced),   *)
(* so floating-point rounding is outside the model.  i32 counts are kept   *)
(* far from the i32 range by the guards of the actions.                    *)
(***************************************************************************)
EXTENDS Integers, Sequences, FiniteSets, TLC

(***************************************************************************)
(* Bounds of the model.                                                    *)
(***************************************************************************)
\* largest count an entry of a composition may reach (the smallest is -1)
MaxCount == 2

\* largest factor of a scaling operation
MaxScale == 2

\* largest number of peaks of an input pattern
MaxPeaks == 3

\* largest count of an entry of a composition handed to the pattern generator
MaxAtoms == 2

\* largest fixed peak count requested from the pattern generator
MaxRequest == 3

\* highest order the constants handed to the constants cache are brought to
MaxOrder == 2

\* largest number of pairs a receive_from drains
MaxDrain == 2

\* largest number of pairs handed to a constructor of a composition
MaxEntries == 2

\* largest number of calls of next() on an iterator after it ended
MaxPolls == 2

\* the most tokens a formula handed to the parser is spelled from
MaxTokens == 4

\* largest count of an entry of a composition handed to the convolution engine
MaxPower == 3

(***************************************************************************)
(* Exact rational arithmetic standing for f64.                             *)
(***************************************************************************)
Abs(x) == IF x < 0 THEN -x ELSE x

RECURSIVE Gcd(_, _)
Gcd(a, b) == IF b = 0 THEN a ELSE Gcd(b, a % b)

\* the reduced rational n/d, d # 0
Q(n, d) ==
    LET g == Gcd(Abs(n), Abs(d))
        s == IF d < 0 THEN -1 ELSE 1
    IN  <<(s * n) \div g, (s * d) \div g>>

QInt(i) == <<i, 1>>

QZero == <<0, 1>>

QOne == <<1, 1>>

QAdd(x, y) ==
    LET g == Gcd(x[2], y[2])
    IN  Q(x[1] * (y[2] \div g) + y[1] * (x[2] \div g), (x[2] \div g) * y[2])

QNeg(x) == <<-x[1], x[2]>>

QSub(x, y) == QAdd(x, QNeg(y))

QMul(x, y) ==
    LET a == Q(x[1], y[2])
        b == Q(y[1], x[2])
    IN  <<a[1] * b[1], a[2] * b[2]>>

\* x / y, y # 0
QDiv(x, y) == QMul(x, Q(y[2], y[1]))

QLt(x, y) ==
    LET g == Gcd(x[2], y[2])
    IN  x[1] * (y[2] \div g) < y[1] * (x[2] \div g)

QGe(x, y) == ~QLt(x, y)

RECURSIVE QSum(_)
QSum(s) == IF s = <<>> THEN QZero ELSE QAdd(QSum(SubSeq(s, 1, Len(s) - 1)), s[Len(s)])

(***************************************************************************)
(* The periodic table.  Element and PeriodicTable are public plain data    *)
(* (PeriodicTable::add); the table of the model holds three light          *)
(* elements with nominal integer masses and small rational abundances:     *)
(*   H  two contiguous isotopes (the layout of H, C, N in table.rs),       *)
(*   X  most abundant isotope, a gap, then two more isotopes (the layout   *)
(*      of the first isotopes of Ca: 40, 42, 43, ...),                     *)
(*   Z  a single isotope (the layout of F, Al, P).                         *)
(* neutron_shift, min_neutron_shift and max_neutron_shift are what         *)
(* index_isotopes computes from the isotopes.                              *)
(***************************************************************************)
Isotope(mass, abn, abd, neutrons, shift) ==
    [mass |-> mass, abundance |-> Q(abn, abd), neutrons |-> neutrons, neutron_shift |-> shift]

PERIODIC_TABLE ==
    [sym \in {"H", "X", "Z"} |->
        CASE sym = "H" ->
                [symbol |-> "H", most_abundant_isotope |-> 1, most_abundant_mass |-> 1,
                 element_number |-> 1, min_neutron_shift |-> 0, max_neutron_shift |-> 1,
                 isotopes |-> (1 :> Isotope(1, 2, 3, 1, 0)) @@ (2 :> Isotope(2, 1, 3, 2, 1))]
          [] sym = "X" ->
                [symbol |-> "X", most_abundant_isotope |-> 4, most_abundant_mass |-> 4,
                 element_number |-> 4, min_neutron_shift |-> 0, max_neutron_shift |-> 3,
                 isotopes |-> (4 :> Isotope(4, 3, 5, 4, 0)) @@ (6 :> Isotope(6, 1, 5, 6, 2))
                              @@ (7 :> Isotope(7, 1, 5, 7, 3))]
          [] sym = "Z" ->
                [symbol |-> "Z", most_abundant_isotope |-> 3, most_abundant_mass |-> 3,
                 element_number |-> 3, min_neutron_shift |-> 0, max_neutron_shift |-> 0,
                 isotopes |-> (3 :> Isotope(3, 1, 1, 3, 0))]]

\* ElementSpecification { element, isotope }: isotope 0 is the most abundant one
ElementSpecification(sym, iso) == [element |-> sym, isotope |-> iso]

\* PartialEq for ElementSpecification: same element and same isotope number
SpecEq(s, t) == s.element = t.element /\ s.isotope = t.isotope

\* the specifications the composition store of the model is exercised with
Specs == {ElementSpecification("H", 0), ElementSpecification("H", 2)}

\* the mass one atom of a specification contributes (calc_mass's summand)
SpecMass(s) ==
    IF s.isotope = 0
    THEN PERIODIC_TABLE[s.element].most_abundant_mass
    ELSE PERIODIC_TABLE[s.element].isotopes[s.isotope].mass

(***************************************************************************)
(* Composition store, list strategy (composition_list.rs).  A composition  *)
(* is [composition |-> sequence of [spec, count], mass_cache |-> <<>> for  *)
(* None or <<m>> for Some(m)].                                             *)
(***************************************************************************)
VecNew == [composition |-> <<>>, mass_cache |-> <<>>]

\* index of the first entry whose specification equals s, 0 for None
VecFind(c, s) ==
    LET hits == {i \in 1..Len(c.composition) : SpecEq(c.composition[i].spec, s)}
    IN  IF hits = {} THEN 0 ELSE CHOOSE i \in hits : \A j \in hits : i <= j

VecGet(c, s) ==
    IF VecFind(c, s) = 0 THEN 0 ELSE c.composition[VecFind(c, s)].count

VecSet(c, s, n) ==
    [composition |->
        IF VecFind(c, s) # 0
        THEN [c.composition EXCEPT ![VecFind(c, s)].count = n]
        ELSE Append(c.composition, [spec |-> s, count |-> n]),
     mass_cache |-> <<>>]

VecInc(c, s, d) == VecSet(c, s, VecGet(c, s) + d)

\* get_str(elt_str): the first entry e with e == elt_str, which PartialEq<str>
\* answers by the symbol and isotope 0; 0 when there is none
VecGetStr(c, elt_str) == VecGet(c, ElementSpecification(elt_str, 0))

RECURSIVE SeqMass(_)
SeqMass(es) ==
    IF es = <<>> THEN 0
    ELSE SeqMass(SubSeq(es, 1, Len(es) - 1)) + SpecMass(es[Len(es)].spec) * es[Len(es)].count

VecCalcMass(c) == SeqMass(c.composition)

VecMass(c) == IF c.mass_cache = <<>> THEN VecCalcMass(c) ELSE c.mass_cache[1]

\* fmass: the composition after the call (the returned value is VecMass of it)
VecFmass(c) ==
    IF c.mass_cache = <<>> THEN [c EXCEPT !.mass_cache = <<VecMass(c)>>] ELSE c

\* comp[&spec] = n through IndexMut
VecIndexMut(c, s, n) ==
    IF VecFind(c, s) # 0
    THEN [composition |-> [c.composition EXCEPT ![VecFind(c, s)].count = n],
          mass_cache |-> <<>>]
    ELSE LET d == VecSet(c, s, 0)
         IN  [d EXCEPT !.composition[Len(d.composition)].count = n]

\* c += entries (sign 1) or c -= entries (sign -1): inc per entry, in order
RECURSIVE VecIncAll(_, _, _)
VecIncAll(c, es, sign) ==
    IF es = <<>> THEN c
    ELSE VecIncAll(VecInc(c, es[1].spec, sign * es[1].count), Tail(es), sign)

VecMulBy(c, scaler) ==
    [c EXCEPT !.composition =
        [i \in 1..Len(c.composition) |-> [c.composition[i] EXCEPT !.count = @ * scaler]]]

VecLen(c) == Len(c.composition)

VecIsEmpty(c) == c.composition = <<>>

\* PartialEq: Vec equality of the entries, position by position
VecEq(c, o) ==
    /\ Len(c.composition) = Len(o.composition)
    /\ \A i \in 1..Len(c.composition) :
          /\ SpecEq(c.composition[i].spec, o.composition[i].spec)
          /\ c.composition[i].count = o.composition[i].count

\* the entries of a list composition as iter() yields them
VecEntries(c) == c.composition

\* From<Vec<(ElementSpecification, i32)>>: the vector becomes the entries
VecFromVec(elements) == [composition |-> elements, mass_cache |-> <<>>]

\* FromIterator (and From<Vec<(&str, i32)>>, which collects): inc per pair
VecFromIter(elements) == VecIncAll(VecNew, elements, 1)

\* the loop of impl_from!: set per entry of the source, in its order
RECURSIVE VecSetAll(_, _)
VecSetAll(c, es) ==
    IF es = <<>> THEN c ELSE VecSetAll(VecSet(c, es[1].spec, es[1].count), Tail(es))

\* From<ChemicalCompositionMap>, the entries of the map as its iter() yields them
VecFromMap(entries) == VecSetAll(VecNew, entries)

(***************************************************************************)
(* Composition store, map strategy (composition_map.rs).  The HashMap is a *)
(* function from the stored specifications to their counts.                *)
(***************************************************************************)
MapNew == [composition |-> <<>>, mass_cache |-> <<>>]

\* Hash for ElementSpecification: the hash of the element, whatever the isotope
SpecHash(s) == s.element

\* a lookup that takes the first stored key of the same hash for the key
MapGetByHash(c, s) ==
    LET bucket == {k \in DOMAIN c.composition : SpecHash(k) = SpecHash(s)}
    IN  IF bucket = {} THEN 0 ELSE c.composition[CHOOSE k \in bucket : TRUE]

MapGet(c, s) == IF s \in DOMAIN c.composition THEN c.composition[s] ELSE 0

MapSet(c, s, n) ==
    [composition |-> [k \in (DOMAIN c.composition) \cup {s} |->
                        IF k = s THEN n ELSE c.composition[k]],
     mass_cache |-> <<>>]

MapInc(c, s, d) == MapSet(c, s, MapGet(c, s) + d)

\* the stored keys HashMap::get(elt) can answer with for a &str: the hash of a
\* specification is the hash of its symbol and Borrow<str> compares the symbol
\* alone, so every isotope of elt matches; which of several matching keys the
\* table meets first depends on its layout
StrKeys(c, elt) == {k \in DOMAIN c.composition : SpecHash(k) = elt}

\* get_str(elt): the values the call can return
MapGetStr(c, elt) ==
    IF StrKeys(c, elt) = {} THEN {0} ELSE {c.composition[k] : k \in StrKeys(c, elt)}

\* self[key] for a bare symbol: quick_check_str says Yes, then the same
\* self.composition.get(key), &ZERO for None
MapIndexStr(c, key) == MapGetStr(c, key)

\* inc_str(elt, count): the compositions the call can leave; with no entry for
\* get_str_mut to hand out, elt is parsed and inc takes the specification
MapIncStr(c, elt, count) ==
    IF StrKeys(c, elt) = {}
    THEN {MapInc(c, ElementSpecification(elt, 0), count)}
    ELSE {[composition |-> [c.composition EXCEPT ![k] = @ + count],
           mass_cache |-> <<>>] : k \in StrKeys(c, elt)}

RECURSIVE MapSumMass(_, _)
MapSumMass(m, keys) ==
    IF keys = {} THEN 0
    ELSE LET k == CHOOSE x \in keys : TRUE
         IN  SpecMass(k) * m[k] + MapSumMass(m, keys \ {k})

MapCalcMass(c) == MapSumMass(c.composition, DOMAIN c.composition)

MapMass(c) == IF c.mass_cache = <<>> THEN MapCalcMass(c) ELSE c.mass_cache[1]

MapFmass(c) ==
    IF c.mass_cache = <<>> THEN [c EXCEPT !.mass_cache = <<MapMass(c)>>] ELSE c

\* comp[&spec] = n through IndexMut: entry(key).or_insert(0), then the store
MapIndexMut(c, s, n) ==
    [composition |-> [k \in (DOMAIN c.composition) \cup {s} |->
                        IF k = s THEN n ELSE c.composition[k]],
     mass_cache |-> <<>>]

\* c += o (sign 1) or c -= o (sign -1): inc per entry of o; the entries of a
\* HashMap have distinct keys, so the iteration order does not change the result
RECURSIVE MapIncAll(_, _, _, _)
MapIncAll(c, m, keys, sign) ==
    IF keys = {} THEN c
    ELSE LET k == CHOOSE x \in keys : TRUE
         IN  MapIncAll(MapInc(c, k, sign * m[k]), m, keys \ {k}, sign)

MapMulBy(c, scaler) ==
    [c EXCEPT !.composition = [k \in DOMAIN c.composition |-> c.composition[k] * scaler]]

MapLen(c) == Cardinality(DOMAIN c.composition)

MapIsEmpty(c) == DOMAIN c.composition = {}

\* PartialEq: HashMap equality, the same keys with the same values
MapEq(c, o) ==
    /\ DOMAIN c.composition = DOMAIN o.composition
    /\ \A k \in DOMAIN c.composition : c.composition[k] = o.composition[k]

\* FromIterator, From<Vec<(ElementSpecification, i32)>> and
\* From<Vec<(&str, i32)>>, which collect: inc per pair
RECURSIVE MapIncSeq(_, _)
MapIncSeq(c, es) ==
    IF es = <<>> THEN c ELSE MapIncSeq(MapInc(c, es[1].spec, es[1].count), Tail(es))

MapFromIter(elements) == MapIncSeq(MapNew, elements)

\* the loop of impl_from!: set per entry of the source, in its order
RECURSIVE MapSetAll(_, _)
MapSetAll(c, es) ==
    IF es = <<>> THEN c ELSE MapSetAll(MapSet(c, es[1].spec, es[1].count), Tail(es))

\* From<ChemicalCompositionVec>
MapFromVec(v) == MapSetAll(MapNew, VecEntries(v))

\* the sequences iter() of a map may yield: its entries in any order
MapEntries(c) ==
    {es \in [1..Cardinality(DOMAIN c.composition) ->
                [spec : DOMAIN c.composition, count : {c.composition[k] : k \in DOMAIN c.composition}]] :
        /\ \A i \in DOMAIN es : es[i].count = c.composition[es[i].spec]
        /\ \A i \in DOMAIN es : \A j \in DOMAIN es : es[i].spec = es[j].spec => i = j}


(***************************************************************************)
(* Theoretical isotopic pattern (isotopic_pattern/peak.rs).  A pattern is  *)
(* [peaks |-> sequence of [mz, intensity], origin |-> mass]; peak i of the *)
(* code is peaks[i + 1] here.                                              *)
(***************************************************************************)
Peak(mz, intensity) == [mz |-> mz, intensity |-> intensity]

TheoreticalIsotopicPattern(peaks, origin) == [peaks |-> peaks, origin |-> origin]

\* the value 0.0 * (1.0 / 0.0) of a peak of a pattern whose total is 0
QNaN == <<0, 0>>

\* (x - y).abs() > 1e-3 of Peak::eq: false when the difference is NaN (an
\* operand is NaN, or both are the same infinity), true when it is infinite
Apart(x, y) ==
    IF x[2] = 0 \/ y[2] = 0
    THEN x # QNaN /\ y # QNaN /\ x # y
    ELSE QLt(Q(1, 1000), Q(Abs(QSub(x, y)[1]), QSub(x, y)[2]))

\* self == other for two patterns: the peaks are zipped, so the comparison
\* stops at the end of the shorter one; two peaks are unequal when their mz or
\* their intensity are more than 1e-3 apart
PatternEq(self, other) ==
    \A i \in 1..(IF Len(self.peaks) < Len(other.peaks)
                 THEN Len(self.peaks) ELSE Len(other.peaks)) :
        ~(\/ Apart(self.peaks[i].mz, other.peaks[i].mz)
          \/ Apart(self.peaks[i].intensity, other.peaks[i].intensity))

\* the sum of the intensities of the first n peaks
RECURSIVE Cumulative(_, _)
Cumulative(peaks, n) ==
    IF n = 0 THEN QZero ELSE QAdd(Cumulative(peaks, n - 1), peaks[n].intensity)

Total(p) == Cumulative(p.peaks, Len(p.peaks))

ScaleBy(p, factor) ==
    [p EXCEPT !.peaks = [i \in 1..Len(p.peaks) |->
                            [p.peaks[i] EXCEPT !.intensity = QMul(@, factor)]]]

Normalize(p) ==
    IF p.peaks = <<>> THEN p
    ELSE IF Total(p) = QZero
         THEN [p EXCEPT !.peaks = [i \in 1..Len(p.peaks) |->
                                      [p.peaks[i] EXCEPT !.intensity = QNaN]]]
         ELSE ScaleBy(p, QDiv(QOne, Total(p)))

\* the scan shared by truncate_after and the fused call: the running total and
\* stop_index when the loop ends (by break at the first peak whose cumulative
\* intensity reaches the threshold, or by exhausting the peaks)
TruncateScan(peaks, threshold) ==
    LET hits == {i \in 1..Len(peaks) : QGe(Cumulative(peaks, i), threshold)}
        first == CHOOSE i \in hits : \A j \in hits : i <= j
    IN  IF hits = {}
        THEN [total |-> Cumulative(peaks, Len(peaks)), stop_index |-> 0]
        ELSE [total |-> Cumulative(peaks, first), stop_index |-> first - 1]

\* Vec::truncate(n)
Truncate(peaks, n) == SubSeq(peaks, 1, IF n < Len(peaks) THEN n ELSE Len(peaks))

TruncateAfter(p, threshold) ==
    Normalize([p EXCEPT !.peaks =
                  Truncate(p.peaks, TruncateScan(p.peaks, threshold).stop_index + 1)])

\* the peaks whose intensity is at least the threshold, in order
RECURSIVE KeepAtLeast(_, _)
KeepAtLeast(peaks, threshold) ==
    IF peaks = <<>> THEN <<>>
    ELSE IF QGe(peaks[1].intensity, threshold)
         THEN <<peaks[1]>> \o KeepAtLeast(Tail(peaks), threshold)
         ELSE KeepAtLeast(Tail(peaks), threshold)

IgnoreBelow(p, threshold) == Normalize([p EXCEPT !.peaks = KeepAtLeast(p.peaks, threshold)])

Shift(p, offset) ==
    [peaks |-> [i \in 1..Len(p.peaks) |-> [p.peaks[i] EXCEPT !.mz = QAdd(@, offset)]],
     origin |-> QAdd(p.origin, offset)]

\* the total of the fused call after its filter loop: each dropped peak is
\* subtracted from the running total of the scan
RECURSIVE FusedTotal(_, _, _)
FusedTotal(peaks, threshold, total) ==
    IF peaks = <<>> THEN total
    ELSE FusedTotal(Tail(peaks), threshold,
                    IF QGe(peaks[1].intensity, threshold)
                    THEN total ELSE QSub(total, peaks[1].intensity))

TruncateAfterIgnoreBelowShiftNormalize(p, truncate_threshold, ignore_below_threshold, shift) ==
    IF p.peaks = <<>> THEN p
    ELSE
    LET scan == TruncateScan(p.peaks, truncate_threshold)
        cut == Truncate(p.peaks, scan.stop_index + 1)
        below == QDiv(ignore_below_threshold, scan.total)
        kept == KeepAtLeast(cut, below)
        total == FusedTotal(cut, below, scan.total)
    IN  [p EXCEPT !.peaks =
            [i \in 1..Len(kept) |->
                Peak(QAdd(kept[i].mz, shift), QDiv(kept[i].intensity, total))]]

\* clone_drop_last: the loop copies peak i (from 0) until i == n
CloneDropLast(p) ==
    LET n == Len(p.peaks)
        stops == {i \in 0..(n - 1) : i = n}
        copied == IF stops = {} THEN n ELSE CHOOSE i \in stops : \A j \in stops : i <= j
    IN  Normalize([p EXCEPT !.peaks = SubSeq(p.peaks, 1, copied)])

\* slice_normalized(lo..hi)
SliceNormalized(p, lo, hi) == Normalize([p EXCEPT !.peaks = SubSeq(p.peaks, lo + 1, hi)])

\* IncrementalTruncationIter { threshold, template, index, cumulative }
IncrementalTruncationIterNew(template, threshold) ==
    [threshold |-> threshold,
     template |-> template,
     index |-> IF Len(template.peaks) = 0 THEN 0 ELSE Len(template.peaks) - 1,
     cumulative |-> [i \in 1..Len(template.peaks) |-> Cumulative(template.peaks, i)]]

IncrementalTruncation(p, threshold) == IncrementalTruncationIterNew(Normalize(p), threshold)

\* next: item is <<>> for None and <<pattern>> for Some(pattern)
IterNext(it) ==
    IF it.index > 0 /\ QLt(it.threshold, it.cumulative[it.index + 1])
    THEN [item |-> <<SliceNormalized(it.template, 0, it.index + 1)>>,
          iter |-> [it EXCEPT !.index = @ - 1]]
    ELSE [item |-> <<>>, iter |-> it]

(***************************************************************************)
(* BRAIN (isotopic_pattern/baffling.rs).  A DVec is a sequence of          *)
(* rationals; element k of the code is element k + 1 here.                 *)
(***************************************************************************)
Sign(i) == IF i % 2 = 0 THEN QOne ELSE QNeg(QOne)

Zeros(n) == [i \in 1..n |-> QZero]

vietes(coefficients) ==
    LET n == Len(coefficients)
        tail == coefficients[n]
    IN  [j \in 1..n |-> QMul(Sign(j - 1), QDiv(coefficients[n - (j - 1)], tail))]

PolynomialParameters(esp, ps) == [elementary_symmetric_polynomial |-> esp, power_sum |-> ps]

\* sum over j in lo..hi of term[j]
RECURSIVE SumOver(_, _, _)
SumOver(term, lo, hi) ==
    IF hi < lo THEN QZero ELSE QAdd(SumOver(term, lo, hi - 1), term[hi])

\* the value update_power_sum pushes for index k
PowerSumTerm(esp, ps, k) ==
    IF k = 0 THEN QZero
    ELSE QAdd(SumOver([j \in 1..(k - 1) |->
                          QMul(Sign(j + 1), QMul(esp[j + 1], ps[k - j + 1]))], 1, k - 1),
              QMul(Sign(k + 1), QMul(esp[k + 1], QInt(k))))

RECURSIVE PowerSumLoop(_, _)
PowerSumLoop(esp, ps) ==
    IF Len(ps) >= Len(esp) THEN ps
    ELSE PowerSumLoop(esp, Append(ps, PowerSumTerm(esp, ps, Len(ps))))

update_power_sum(pp) ==
    [pp EXCEPT !.power_sum = PowerSumLoop(pp.elementary_symmetric_polynomial, @)]

\* the value update_elementary_symmetric_polynomial pushes for index k; a
\* negative order cast to usize is larger than every k
EspTerm(esp, ps, k, order) ==
    IF k = 0 THEN QOne
    ELSE IF order >= 0 /\ k > order THEN QZero
    ELSE QDiv(SumOver([j \in 1..k |->
                          QMul(Sign(j + 1), QMul(ps[j + 1], esp[k - j + 1]))], 1, k),
              QInt(k))

RECURSIVE EspLoop(_, _, _)
EspLoop(esp, ps, order) ==
    IF Len(esp) >= Len(ps) THEN esp
    ELSE EspLoop(Append(esp, EspTerm(esp, ps, Len(esp), order)), ps, order)

update_elementary_symmetric_polynomial(pp, order) ==
    [pp EXCEPT !.elementary_symmetric_polynomial = EspLoop(@, pp.power_sum, order)]

\* newton_optimization taking the Greater arm whatever the lengths are
newton_optimization_esp_only(pp, order) == update_elementary_symmetric_polynomial(pp, order)

newton_optimization(pp, order) ==
    IF Len(pp.power_sum) < Len(pp.elementary_symmetric_polynomial)
    THEN update_power_sum(pp)
    ELSE IF Len(pp.power_sum) = Len(pp.elementary_symmetric_polynomial)
         THEN pp
         ELSE update_elementary_symmetric_polynomial(pp, order)

\* the loop of isotopic_coefficients from neutron shift z on; the isotope is
\* looked up by the number k the code computes, and skipped when no isotope
\* has that number.  The Less arm panics ("Unordered isotopes")
RECURSIVE CoefficientLoop(_, _, _, _)
CoefficientLoop(element, with_mass, z, accumulator) ==
    IF z > element.max_neutron_shift THEN accumulator
    ELSE
    LET i == z - element.min_neutron_shift
        k == Cardinality(DOMAIN element.isotopes) + element.element_number - i - 1
    IN  IF k \notin DOMAIN element.isotopes
        THEN CoefficientLoop(element, with_mass, z + 1, accumulator)
        ELSE
        LET isotope == element.isotopes[k]
            current_order == element.max_neutron_shift - isotope.neutron_shift
            coef == IF with_mass THEN QInt(isotope.mass) ELSE QOne
        IN  IF current_order < Len(accumulator) THEN "panic"
            ELSE CoefficientLoop(element, with_mass, z + 1,
                    Append(accumulator \o Zeros(current_order - Len(accumulator)),
                           QMul(coef, isotope.abundance)))

isotopic_coefficients(element, with_mass) ==
    CoefficientLoop(element, with_mass, element.min_neutron_shift, <<>>)

PolynomialFromElement(element, with_mass) ==
    LET accumulator == isotopic_coefficients(element, with_mass)
    IN  newton_optimization(PolynomialParameters(vietes(accumulator), <<>>),
                            Len(accumulator) - 1)

PhiFromElement(element) ==
    [order |-> element.max_neutron_shift,
     element_key |-> element.symbol,
     element_coefficients |-> PolynomialFromElement(element, FALSE),
     mass_coefficients |-> PolynomialFromElement(element, TRUE)]

\* IsotopicConstants { constants, order }.  constants is a Vec of (symbol,
\* PhiConstants) that get searches by symbol and that never holds a symbol
\* twice (add returns early, set follows a checkout), so it is modelled as a
\* function from the symbols present
IsotopicConstants(constants, order) == [constants |-> constants, order |-> order]

IsotopicConstantsNew == IsotopicConstants(<<>>, 0)

ConstantsSet(self, symbol, phi) ==
    [self EXCEPT !.constants = [k \in (DOMAIN @) \cup {symbol} |->
                                   IF k = symbol THEN phi ELSE @[k]]]

ConstantsAdd(self, element) ==
    IF element.symbol \in DOMAIN self.constants THEN self
    ELSE ConstantsSet(self, element.symbol, PhiFromElement(element))

PushZeros(pp, n) ==
    [pp EXCEPT !.elementary_symmetric_polynomial = @ \o Zeros(n)]

\* update pushing one zero fewer than the range elt_params.order..order + 1
UpdateParamsOneShort(elt_params, order) ==
    IF order < elt_params.order THEN elt_params
    ELSE
    LET n == order - elt_params.order
        new_order == Len(elt_params.element_coefficients.elementary_symmetric_polynomial) + n
    IN  [elt_params EXCEPT
            !.order = new_order,
            !.element_coefficients = newton_optimization(PushZeros(@, n), new_order),
            !.mass_coefficients = newton_optimization(PushZeros(@, n), new_order)]

\* the body of the loop of update for one element
UpdateParams(elt_params, order) ==
    IF order < elt_params.order THEN elt_params
    ELSE
    LET n == order + 1 - elt_params.order
        new_order == Len(elt_params.element_coefficients.elementary_symmetric_polynomial) + n
    IN  [elt_params EXCEPT
            !.order = new_order,
            !.element_coefficients = newton_optimization(PushZeros(@, n), new_order),
            !.mass_coefficients = newton_optimization(PushZeros(@, n), new_order)]

ConstantsUpdate(self) ==
    [self EXCEPT !.constants = [k \in DOMAIN @ |-> UpdateParams(@[k], self.order)]]

\* IsotopicConstantsCache: the HashMap from symbol to PhiConstants, a function
\* from the symbols present
IsotopicConstantsCacheNew == <<>>

\* checkout: the cache without the symbol (the removed value is cache[symbol])
Checkout(cache, symbol) == [k \in (DOMAIN cache) \ {symbol} |-> cache[k]]

\* receive refusing constants of the order already cached
ReceiveStrict(cache, symbol, constants) ==
    IF symbol \notin DOMAIN cache
    THEN [stored |-> TRUE,
          cache |-> [k \in (DOMAIN cache) \cup {symbol} |->
                        IF k = symbol THEN constants ELSE cache[k]]]
    ELSE IF cache[symbol].order >= constants.order
         THEN [stored |-> FALSE, cache |-> cache]
         ELSE [stored |-> TRUE, cache |-> [cache EXCEPT ![symbol] = constants]]

\* receive: the returned flag and the cache afterwards
Receive(cache, symbol, constants) ==
    IF symbol \notin DOMAIN cache
    THEN [stored |-> TRUE,
          cache |-> [k \in (DOMAIN cache) \cup {symbol} |->
                        IF k = symbol THEN constants ELSE cache[k]]]
    ELSE IF cache[symbol].order > constants.order
         THEN [stored |-> FALSE, cache |-> cache]
         ELSE [stored |-> TRUE, cache |-> [cache EXCEPT ![symbol] = constants]]

\* the loop of receive_from over the drained pairs <<symbol, constants>>
RECURSIVE ReceiveLoop(_, _)
ReceiveLoop(cache, pairs) ==
    IF pairs = <<>> THEN cache
    ELSE ReceiveLoop(Receive(cache, pairs[1][1], pairs[1][2]).cache, Tail(pairs))

\* receive_from dropping the constants instead of draining them into the cache
ReceiveFromDropped(cache, params) == cache

\* the entries of a composition in a fixed order (HashMap::iter visits them
\* in an arbitrary one; the sums and products below do not depend on it)
RECURSIVE Entries(_)
Entries(keys) ==
    IF keys = {} THEN <<>>
    ELSE LET k == CHOOSE x \in keys : TRUE
         IN  <<k>> \o Entries(keys \ {k})

\* receive_from: the pairs of params.constants drained in their order (the
\* symbols a distribution holds are distinct)
ReceiveFrom(cache, params) ==
    LET drain(symbols) ==
            ReceiveLoop(cache, [i \in 1..Len(symbols) |->
                                   <<symbols[i], params.constants[symbols[i]]>>])
    IN  drain(Entries(DOMAIN params.constants))

max_variants(composition) ==
    LET es == Entries(DOMAIN composition.composition)
        RECURSIVE Acc(_)
        Acc(n) == IF n = 0 THEN 0
                  ELSE Acc(n - 1) + PERIODIC_TABLE[es[n].element].max_neutron_shift
                                    * composition.composition[es[n]]
    IN  Acc(Len(es))

\* f64 division x / total: x / 0.0 is NaN for x = 0 and an infinity <<1, 0>>
\* or <<-1, 0>> otherwise
FDiv(x, total) ==
    IF total[1] # 0 THEN QDiv(x, total)
    ELSE IF x[1] = 0 THEN QNaN
    ELSE IF x[1] > 0 THEN <<1, 0>> ELSE <<0 - 1, 0>>

mass_charge_ratio(neutral_mass, z, charge_carrier) ==
    FDiv(QAdd(neutral_mass, QMul(QInt(z), charge_carrier)), QInt(Abs(z)))

LAMBDA_FACTOR == 1800

\* the loop of poisson_approximate_n_peaks_of_impl from iteration i on.  An
\* infinite cur_intensity needs more than f64's range, which no mass of the
\* model reaches
RECURSIVE PoissonLoop(_, _, _, _, _, _, _)
PoissonLoop(lambda, target_threshold, max_iter, i, p_i, factorial_acc, acc) ==
    IF i >= max_iter THEN max_iter
    ELSE
    LET p == QMul(p_i, lambda)
        f == QMul(factorial_acc, QInt(i))
        cur_intensity == QDiv(p, f)
        a == QAdd(acc, cur_intensity)
    IN  IF QLt(QDiv(cur_intensity, a), target_threshold) THEN i
        ELSE PoissonLoop(lambda, target_threshold, max_iter, i + 1, p, f, a)

poisson_approximate_n_peaks_of_impl(mass, lambda_factor, threshold, max_iter) ==
    PoissonLoop(QDiv(mass, lambda_factor), QSub(QOne, threshold), max_iter, 1, QOne, QOne, QOne)

poisson_approximate_n_peaks_of(mass, threshold) ==
    poisson_approximate_n_peaks_of_impl(mass, QInt(LAMBDA_FACTOR), threshold, 255)

\* PROTON (mz.rs) and NEUTRON_SHIFT, the latter rounded to six decimals
PROTON == Q(1007276, 1000000)

NEUTRON_SHIFT == Q(1003355, 1000000)

\* the intensities of poisson_approximation_impl before normalisation: the
\* term lambda^i / i! for i = 0 .. n_peaks - 1 (all finite in exact arithmetic)
RECURSIVE PoissonIntensities(_, _, _, _)
PoissonIntensities(lambda, n_peaks, p_i, factorial_acc) ==
    IF Len(p_i) = n_peaks THEN [i \in 1..n_peaks |-> QDiv(p_i[i], factorial_acc[i])]
    ELSE PoissonIntensities(lambda, n_peaks,
                            Append(p_i, QMul(p_i[Len(p_i)], lambda)),
                            Append(factorial_acc,
                                   QMul(factorial_acc[Len(p_i)], QInt(Len(p_i)))))

poisson_approximation_impl(mass, n_peaks, charge, lambda_factor) ==
    IF n_peaks = 0 THEN <<>>
    ELSE LET list(intensities) ==
                 [i \in 1..n_peaks |->
                     Peak(mass_charge_ratio(QAdd(mass, QMul(QInt(i - 1), NEUTRON_SHIFT)),
                                            charge, PROTON),
                          QDiv(intensities[i], QSum(intensities)))]
         IN  list(PoissonIntensities(QDiv(mass, lambda_factor), n_peaks,
                                     <<QOne>>, <<QOne>>))

poisson_approximation(mass, n_peaks, charge) ==
    poisson_approximation_impl(mass, n_peaks, charge, QInt(LAMBDA_FACTOR))

(***************************************************************************)
(* The same loop over all of f64.  A value is known by its class only: NaN,*)
(* an infinity, zero, or a finite value of either sign.  An operation on   *)
(* classes gives every class the f64 operation can give for some values of *)
(* the operands' classes, overflow to an infinity and underflow to zero    *)
(* included.                                                               *)
(***************************************************************************)
F64Classes == {"nan", "ninf", "neg", "zero", "pos", "inf"}

Magnitude(a) == IF a \in {"inf", "ninf"} THEN "inf" ELSE IF a = "zero" THEN "zero" ELSE "finite"

Signum(a) == IF a \in {"ninf", "neg"} THEN 0 - 1 ELSE 1

Signed(s, magnitude) ==
    IF magnitude = "zero" THEN "zero"
    ELSE IF magnitude = "inf" THEN (IF s < 0 THEN "ninf" ELSE "inf")
    ELSE IF s < 0 THEN "neg" ELSE "pos"

ClassNeg(a) == IF a = "nan" THEN "nan" ELSE Signed(0 - Signum(a), Magnitude(a))

ClassMul(a, b) ==
    IF "nan" \in {a, b} \/ {Magnitude(a), Magnitude(b)} = {"zero", "inf"} THEN {"nan"}
    ELSE IF "zero" \in {a, b} THEN {"zero"}
    ELSE IF "inf" \in {Magnitude(a), Magnitude(b)}
         THEN {Signed(Signum(a) * Signum(b), "inf")}
         ELSE {Signed(Signum(a) * Signum(b), m) : m \in {"zero", "finite", "inf"}}

ClassDiv(a, b) ==
    IF "nan" \in {a, b} \/ (Magnitude(a) = Magnitude(b) /\ Magnitude(a) # "finite")
    THEN {"nan"}
    ELSE IF b = "zero" THEN {"inf", "ninf"}
    ELSE IF a = "zero" \/ Magnitude(b) = "inf" THEN {"zero"}
    ELSE IF Magnitude(a) = "inf" THEN {Signed(Signum(a) * Signum(b), "inf")}
    ELSE {Signed(Signum(a) * Signum(b), m) : m \in {"zero", "finite", "inf"}}

ClassAdd(a, b) ==
    IF "nan" \in {a, b} THEN {"nan"}
    ELSE IF a = "zero" THEN {b}
    ELSE IF b = "zero" THEN {a}
    ELSE IF Magnitude(a) = "inf"
         THEN (IF Magnitude(b) = "inf" /\ a # b THEN {"nan"} ELSE {a})
    ELSE IF Magnitude(b) = "inf" THEN {b}
    ELSE IF a = b THEN {a, Signed(Signum(a), "inf")}
    ELSE {"neg", "zero", "pos"}

ClassRank(a) ==
    CASE a = "ninf" -> 0 [] a = "neg" -> 1 [] a = "zero" -> 2 [] a = "pos" -> 3 [] OTHER -> 4

\* a < b: never with a NaN; either way between two finite values of one sign
ClassLt(a, b) ==
    IF "nan" \in {a, b} THEN {FALSE}
    ELSE IF a = b /\ Magnitude(a) = "finite" THEN BOOLEAN
    ELSE {ClassRank(a) < ClassRank(b)}

\* the loop variables before the first turn of the for loop: i is the next
\* value of the loop variable, turns counts the turns taken, n is <<>> while
\* the loop runs and <<r>> once the function returned r
PoissonStart(lambda, target_threshold) ==
    [lambda |-> lambda, target_threshold |-> target_threshold, i |-> 1, turns |-> 0,
     p_i |-> "pos", factorial_acc |-> "pos", acc |-> "pos", n |-> <<>>]

\* the body of the loop for the value loop.i: every outcome the classes allow
PoissonBody(loop) ==
    UNION {
      UNION {
        IF Magnitude(cur_intensity) = "inf"
        THEN {[loop EXCEPT !.p_i = pf[1], !.factorial_acc = pf[2], !.turns = @ + 1,
                           !.n = <<loop.i>>]}
        ELSE UNION {
               UNION {
                 {[loop EXCEPT !.p_i = pf[1], !.factorial_acc = pf[2], !.acc = a,
                               !.turns = @ + 1,
                               !.i = IF below THEN @ ELSE @ + 1,
                               !.n = IF below THEN <<loop.i>> ELSE <<>>] :
                     below \in ClassLt(ratio, loop.target_threshold)} :
                 ratio \in ClassDiv(cur_intensity, a)} :
               a \in ClassAdd(loop.acc, cur_intensity)} :
        cur_intensity \in ClassDiv(pf[1], pf[2])} :
      pf \in ClassMul(loop.p_i, loop.lambda) \X ClassMul(loop.factorial_acc, "pos")}

\* a loop that goes on until one of the two returns in its body is taken
PoissonStepUnbounded(loop, max_iter) == PoissonBody(loop)

\* one turn of for i in 1..max_iter, or the return of max_iter once the range
\* is used up
PoissonStep(loop, max_iter) ==
    IF loop.i >= max_iter THEN {[loop EXCEPT !.n = <<max_iter>>]}
    ELSE PoissonBody(loop)

Min(a, b) == IF a < b THEN a ELSE b

guess_npeaks(composition, max_npeaks) ==
    Min(poisson_approximate_n_peaks_of(QInt(MapMass(composition)), Q(9999, 10000)), max_npeaks)

\* NumPeaksSpec (PercentSignal, the f32 variant, is left out)
Guess == [kind |-> "Guess"]

FixedCount(i) == [kind |-> "FixedCount", count |-> i]

num_peaks(spec, composition) ==
    IF spec.kind = "Guess" THEN guess_npeaks(composition, 300)
    ELSE IF spec.count - 1 > 0 THEN spec.count - 1 ELSE 0

\* From<i32> for NumPeaksSpec
FromI32(value) == IF value = 0 THEN Guess ELSE FixedCount(value)

\* IsotopicDistribution { composition, constants, order, monoisotopic_peak,
\* max_variants } (average_mass is never read)
update_order(inst, order) ==
    LET o == IF order = 0 - 1 THEN inst.max_variants ELSE Min(order, inst.max_variants)
    IN  [inst EXCEPT !.order = o, !.constants.order = o]

\* exp of the sum of the logarithms: the product of the abundances of the most
\* abundant isotope, one factor per entry
make_monoisotopic_peak(inst) ==
    LET es == Entries(DOMAIN inst.composition.composition)
        RECURSIVE Prod(_)
        Prod(n) ==
            IF n = 0 THEN QOne
            ELSE LET element == PERIODIC_TABLE[es[n].element]
                 IN  QMul(Prod(n - 1), element.isotopes[element.most_abundant_isotope].abundance)
    IN  Peak(QInt(MapMass(inst.composition)), Prod(Len(es)))

fill_from_composition(composition, order) ==
    LET peak(inst) == [inst EXCEPT !.monoisotopic_peak = make_monoisotopic_peak(inst)]
    IN  peak(update_order([composition |-> composition,
                           constants |-> IsotopicConstantsNew,
                           max_variants |-> max_variants(composition),
                           order |-> 0,
                           monoisotopic_peak |-> Peak(QZero, QZero)],
                          num_peaks(order, composition) + 1))

\* the loops of populate_constants_from_cache and populate_constants over the
\* entries es[1..n]: the distribution's constants and the cache afterwards
RECURSIVE PopulateLoop(_, _, _, _)
PopulateLoop(constants, cache, es, n) ==
    IF n = 0 THEN [constants |-> constants, cache |-> cache]
    ELSE
    LET prev == PopulateLoop(constants, cache, es, n - 1)
        symbol == es[n].element
    IN  IF symbol \in DOMAIN prev.cache
        THEN [constants |-> ConstantsSet(prev.constants, symbol, prev.cache[symbol]),
              cache |-> Checkout(prev.cache, symbol)]
        ELSE [constants |-> ConstantsAdd(prev.constants, PERIODIC_TABLE[symbol]),
              cache |-> prev.cache]

populate_constants_from_cache(inst, cache) ==
    LET es == Entries(DOMAIN inst.composition.composition)
        r == PopulateLoop(inst.constants, cache, es, Len(es))
    IN  [inst |-> [inst EXCEPT !.constants = ConstantsUpdate(r.constants)],
         cache |-> r.cache]

populate_constants(inst) ==
    populate_constants_from_cache(inst, IsotopicConstantsCacheNew).inst

from_composition(composition, order) ==
    populate_constants(fill_from_composition(composition, order))

\* nth_element_power_sum and nth_element_power_sum_mass index power_sum and
\* panic when the index is out of bounds: the engine can only run when every
\* element's power sums reach the working order
PowerSumsReach(inst) ==
    \A k \in DOMAIN inst.constants.constants :
        /\ Len(inst.constants.constants[k].element_coefficients.power_sum) > inst.order
        /\ Len(inst.constants.constants[k].mass_coefficients.power_sum) > inst.order

phi_for(inst, order) ==
    LET es == Entries(DOMAIN inst.composition.composition)
    IN  SumOver([n \in 1..Len(es) |->
                    QMul(inst.constants.constants[es[n].element]
                             .element_coefficients.power_sum[order + 1],
                         QInt(inst.composition.composition[es[n]]))], 1, Len(es))

phi_mass_for(inst, element, order) ==
    LET es == Entries(DOMAIN inst.composition.composition)
        coef(n) == IF es[n].element = element.element
                   THEN inst.composition.composition[es[n]] - 1
                   ELSE inst.composition.composition[es[n]]
    IN  QAdd(SumOver([n \in 1..Len(es) |->
                        QMul(inst.constants.constants[es[n].element]
                                 .element_coefficients.power_sum[order + 1],
                             QInt(coef(n)))], 1, Len(es)),
             inst.constants.constants[element.element].mass_coefficients.power_sum[order + 1])

phi_values(inst) ==
    <<QZero>> \o [i \in 1..inst.order |-> phi_for(inst, i)]

phi_values_mass(inst, element) ==
    <<QZero>> \o [i \in 1..inst.order |-> phi_mass_for(inst, element, i)]

probability_vector(inst) ==
    LET params == newton_optimization(PolynomialParameters(<<>>, phi_values(inst)),
                                      inst.max_variants)
    IN  [i \in 1..Len(params.elementary_symmetric_polynomial) |->
            QMul(params.elementary_symmetric_polynomial[i],
                 QMul(inst.monoisotopic_peak.intensity, Sign(i - 1)))]

\* the polynomial build_polynomial_map stores for one entry
ElementPolynomial(inst, element) ==
    newton_optimization(PolynomialParameters(<<>>, phi_values_mass(inst, element)),
                        inst.max_variants).elementary_symmetric_polynomial

center_mass_vector(inst, probability) ==
    LET es == Entries(DOMAIN inst.composition.composition)
        center(i) ==
            SumOver([n \in 1..Len(es) |->
                QMul(QMul(QInt(inst.composition.composition[es[n]]),
                          QMul(Sign(i), ElementPolynomial(inst, es[n])[i + 1])),
                     QMul(inst.monoisotopic_peak.intensity,
                          QInt(PERIODIC_TABLE[es[n].element].most_abundant_mass)))],
                1, Len(es))
    IN  [j \in 1..(inst.order + 1) |->
            IF probability[j] = QZero THEN QZero
            ELSE QDiv(center(j - 1), probability[j])]

\* intensity < 1e-10 (false for NaN): n / d < 10^-10 iff (d - 1) \div n >= 10^10
BelowFloor(q) ==
    IF q[2] = 0 THEN q[1] < 0
    ELSE q[1] <= 0 \/ (((q[2] - 1) \div q[1]) \div 100000) >= 100000

\* the peak loop of isotopic_variants from index i on (1-based)
RECURSIVE PeakLoop(_, _, _, _, _, _, _)
PeakLoop(centers, probability, total, charge, charge_carrier, i, has_real_peaks) ==
    IF i > Len(centers) \/ i > Len(probability) THEN <<>>
    ELSE
    LET peak == Peak(IF charge # 0
                     THEN mass_charge_ratio(centers[i], charge, charge_carrier)
                     ELSE centers[i],
                     FDiv(probability[i], total))
    IN  IF BelowFloor(peak.intensity)
        THEN IF ~has_real_peaks
             THEN <<peak>> \o PeakLoop(centers, probability, total, charge,
                                       charge_carrier, i + 1, has_real_peaks)
             ELSE <<>>
        ELSE <<peak>> \o PeakLoop(centers, probability, total, charge,
                                  charge_carrier, i + 1, TRUE)

\* sort_by on mz (a stable sort): insertion of each peak after the peaks whose
\* mz is not greater
RECURSIVE SortByMz(_)
SortByMz(peaks) ==
    IF peaks = <<>> THEN <<>>
    ELSE LET rest == SortByMz(SubSeq(peaks, 1, Len(peaks) - 1))
             last == peaks[Len(peaks)]
             before == {i \in 1..Len(rest) : ~QLt(last.mz, rest[i].mz)}
             n == Cardinality(before)
         IN  SubSeq(rest, 1, n) \o <<last>> \o SubSeq(rest, n + 1, Len(rest))

\* IsotopicDistribution::isotopic_variants: [aborted, peaks].  A negative
\* working order is cast to usize and incremented: with overflow checks (a
\* debug build) the addition panics; without them (a release build) order -1
\* wraps to empty ranges and an empty peak list, and a lower order indexes
\* the power sums out of bounds or overflows the capacity, which panics
DistributionVariants(inst, charge, charge_carrier, overflow_checks) ==
    IF inst.order < 0
    THEN [aborted |-> overflow_checks \/ inst.order < 0 - 1, peaks |-> <<>>]
    ELSE IF ~PowerSumsReach(inst)
    THEN [aborted |-> TRUE, peaks |-> <<>>]
    ELSE
    LET emit(probability) ==
            [aborted |-> FALSE,
             peaks |-> SortByMz(PeakLoop(center_mass_vector(inst, probability),
                                         probability, QSum(probability), charge,
                                         charge_carrier, 1, FALSE))]
    IN  emit(probability_vector(inst))

\* the free function isotopic_variants
isotopic_variants(composition, npeaks, charge, charge_carrier, overflow_checks) ==
    LET n == num_peaks(npeaks, composition)
    IN  DistributionVariants(from_composition(composition, FromI32(n)),
                             charge, charge_carrier, overflow_checks)

\* BafflingRecursiveIsotopicPatternGenerator::isotopic_variants on the
\* parameter cache pc: the result and the parameter cache afterwards (after a
\* panic, what the checkouts left)
GeneratorVariants(pc, composition, npeaks, charge, charge_carrier, overflow_checks) ==
    LET receive(dist, result) ==
            [aborted |-> result.aborted,
             peaks |-> result.peaks,
             order |-> dist.inst.order,
             parameter_cache |-> IF result.aborted THEN dist.cache
                                 ELSE ReceiveFrom(dist.cache, dist.inst.constants)]
        run(dist) ==
            receive(dist, DistributionVariants(dist.inst, charge, charge_carrier,
                                               overflow_checks))
    IN  run(populate_constants_from_cache(
                fill_from_composition(composition,
                                      FromI32(num_peaks(npeaks, composition))), pc))

(***************************************************************************)
(* The convolution engine (isotopic_pattern/convolution.rs).  A            *)
(* distribution is a sequence of <<mass, abundance>> pairs.                *)
(***************************************************************************)
\* convolve_with: the pairs pushed on out, the element's pairs in the outer
\* loop and the distribution's in the inner one
convolve_with(dist, element, abundance_threshold) ==
    SelectSeq([k \in 1..(Len(element) * Len(dist)) |->
                  <<QAdd(dist[((k - 1) % Len(dist)) + 1][1],
                         element[((k - 1) \div Len(dist)) + 1][1]),
                    QMul(dist[((k - 1) % Len(dist)) + 1][2],
                         element[((k - 1) \div Len(dist)) + 1][2])>>],
              LAMBDA t : ~QLt(t[2], abundance_threshold))

\* the while loop of convolve_pow: the buffer and power when it ends
RECURSIVE SquareLoop(_, _, _, _)
SquareLoop(buffer, power, n, abundance_threshold) ==
    IF power <= n
    THEN SquareLoop(convolve_with(buffer, buffer, abundance_threshold), power * 2, n,
                    abundance_threshold)
    ELSE [buffer |-> buffer, power |-> power]

\* convolve_pow without the factor folded in for a count that is no power of
\* two
convolve_pow_squares_only(dist, n, abundance_threshold) ==
    IF n = 0 THEN <<(<<QZero, QOne>>)>>
    ELSE IF n = 1 THEN dist
    ELSE SquareLoop(dist, 2, n, abundance_threshold).buffer

\* convolve_pow: what it leaves in out
RECURSIVE convolve_pow(_, _, _)
convolve_pow(dist, n, abundance_threshold) ==
    IF n = 0 THEN <<(<<QZero, QOne>>)>>
    ELSE IF n = 1 THEN dist
    ELSE LET rest(loop) ==
                 IF loop.power \div 2 < n
                 THEN convolve_with(loop.buffer,
                                    convolve_pow(dist, n - loop.power \div 2,
                                                 abundance_threshold),
                                    abundance_threshold)
                 ELSE loop.buffer
         IN  rest(SquareLoop(dist, 2, n, abundance_threshold))

\* element.isotopes.values() as (mass, abundance) pairs (the HashMap yields
\* them in an arbitrary order; here by isotope number)
RECURSIVE IsotopePairs(_, _)
IsotopePairs(isotopes, keys) ==
    IF keys = {} THEN <<>>
    ELSE LET k == CHOOSE x \in keys : \A y \in keys : x <= y
         IN  <<(<<QInt(isotopes[k].mass), isotopes[k].abundance>>)>>
                 \o IsotopePairs(isotopes, keys \ {k})

\* the loop of isotopic_convolution over the entries es[1..n]: out
RECURSIVE ConvolutionLoop(_, _, _, _)
ConvolutionLoop(composition, es, n, abundance_threshold) ==
    IF n = 0 THEN <<>>
    ELSE LET tmp == convolve_pow(IsotopePairs(PERIODIC_TABLE[es[n].element].isotopes,
                                              DOMAIN PERIODIC_TABLE[es[n].element].isotopes),
                                 composition.composition[es[n]], abundance_threshold)
         IN  IF n = 1 THEN tmp
             ELSE convolve_with(tmp, ConvolutionLoop(composition, es, n - 1,
                                                     abundance_threshold),
                                abundance_threshold)

\* out when the loop of isotopic_convolution ends
ConvolutionTerms(composition, abundance_threshold) ==
    LET loop(es) == ConvolutionLoop(composition, es, Len(es), abundance_threshold)
    IN  loop(Entries(DOMAIN composition.composition))

\* From<PeakList> for TheoreticalIsotopicPattern reads src[0] and panics on an
\* empty list: <<>> for the panic, <<pattern>> otherwise
PatternFromPeaks(src) ==
    IF src = <<>> THEN <<>> ELSE <<TheoreticalIsotopicPattern(src, src[1].mz)>>

\* isotopic_convolution: [aborted, peaks]
isotopic_convolution(composition, charge, charge_carrier, abundance_threshold) ==
    LET finish(from) ==
            IF from = <<>> THEN [aborted |-> TRUE, peaks |-> <<>>]
            ELSE [aborted |-> FALSE,
                  peaks |-> IgnoreBelow(Normalize(from[1]), abundance_threshold).peaks]
        charged(out) ==
            [i \in 1..Len(out) |->
                Peak(IF charge # 0 THEN mass_charge_ratio(out[i].mz, charge, charge_carrier)
                     ELSE out[i].mz,
                     out[i].intensity)]
        sorted(out) == SortByMz([i \in 1..Len(out) |-> Peak(out[i][1], out[i][2])])
    IN  finish(PatternFromPeaks(charged(sorted(ConvolutionTerms(composition,
                                                                abundance_threshold)))))

(***************************************************************************)
(* Formula parser (formula.rs).  A formula is a sequence of one-character  *)
(* strings; positions count from 0 as in the source.  The parser record    *)
(* carries, beside the fields of FormulaParser, the accumulator acc and    *)
(* out: <<>> while the loop runs, <<"panic">> once an indexing operation   *)
(* has panicked, <<e>> once the parser has returned Err(e).                *)
(***************************************************************************)
AsciiUppercase ==
    {"A", "B", "C", "D", "E", "F", "G", "H", "I", "J", "K", "L", "M",
     "N", "O", "P", "Q", "R", "S", "T", "U", "V", "W", "X", "Y", "Z"}

AsciiLowercase ==
    {"a", "b", "c", "d", "e", "f", "g", "h", "i", "j", "k", "l", "m",
     "n", "o", "p", "q", "r", "s", "t", "u", "v", "w", "x", "y", "z"}

Numerals == <<"0", "1", "2", "3", "4", "5", "6", "7", "8", "9">>

is_alphabetic(c) == c \in AsciiUppercase \cup AsciiLowercase

is_uppercase(c) == c \in AsciiUppercase

is_numeric(c) == \E d \in 1..10 : Numerals[d] = c

DigitValue(c) == (CHOOSE d \in 1..10 : Numerals[d] = c) - 1

\* &string[start..end] is defined when start <= end <= string.len()
SliceOk(string, start, end) == start <= end /\ end <= Len(string)

Slice(string, start, end) == SubSeq(string, start + 1, end)

Ok(value) == [kind |-> "Ok", value |-> value]

Err(error) == [kind |-> "Err", value |-> error]

Panicked == [kind |-> "panic", value |-> <<>>]

\* str::parse of a run of digits into an integer type of maximum max:
\* Err for the empty string and for a value above max
RECURSIVE ParseDigits(_, _)
ParseDigits(digits, max) ==
    IF digits = <<>> THEN Ok(0)
    ELSE LET last(front) ==
                 IF front.kind = "Err" THEN front
                 ELSE IF front.value > (max - DigitValue(digits[Len(digits)])) \div 10
                      THEN Err("ParseIntError")
                      ELSE Ok(front.value * 10 + DigitValue(digits[Len(digits)]))
         IN  last(ParseDigits(SubSeq(digits, 1, Len(digits) - 1), max))

ParseInteger(digits, max) ==
    IF digits = <<>> THEN Err("ParseIntError") ELSE ParseDigits(digits, max)

\* FormulaParser::default() with a new accumulator
FormulaParserDefault ==
    [element_start |-> 0, element_end |-> 0, isotope_start |-> 0, isotope_end |-> 0,
     count_start |-> 0, count_end |-> 0, paren_stack |-> 0, group_start |-> 0,
     group_end |-> 0, group_count_start |-> 0, group_count_end |-> 0,
     state |-> "New", acc |-> MapNew, out |-> <<>>]

Return(self, error) == [self EXCEPT !.out = <<error>>]

Panic(self) == [self EXCEPT !.out = <<"panic">>]

\* the keys of the periodic table spelled by the characters of a slice
TableKeys(symbol) == {sym \in DOMAIN PERIODIC_TABLE : <<sym>> = symbol}

\* parse_element_from_string: the slice and the table lookup both index, and
\* indexing panics on a bad range and on a key the table does not hold
parse_element_from_string(self, string) ==
    IF ~SliceOk(string, self.element_start, self.element_end) THEN Panicked
    ELSE LET lookup(keys) ==
                 IF keys = {} THEN Panicked ELSE Ok(CHOOSE sym \in keys : TRUE)
         IN  lookup(TableKeys(Slice(string, self.element_start, self.element_end)))

\* parse_element_from_string, then acc.inc(ElementSpecification { element,
\* isotope }, count)
IncParsedElement(self, string, isotope, count) ==
    LET inc(elt) ==
            IF elt.kind = "panic" THEN Panic(self)
            ELSE [self EXCEPT
                     !.element_start = 0, !.element_end = 0,
                     !.acc = MapInc(@, ElementSpecification(elt.value, isotope), count)]
    IN  inc(parse_element_from_string(self, string))

\* the parses of a slice: Panicked for a bad range
parse_element_count(self, string) ==
    IF ~SliceOk(string, self.count_start, self.count_end) THEN Panicked
    ELSE ParseInteger(Slice(string, self.count_start, self.count_end), 2147483647)

parse_group_count(self, string) ==
    IF ~SliceOk(string, self.group_count_start, self.group_count_end) THEN Panicked
    ELSE ParseInteger(Slice(string, self.group_count_start, self.group_count_end),
                      2147483647)

\* string[isotope_start..isotope_end].parse::<u16>()
ParseIsotope(self, string) ==
    IF ~SliceOk(string, self.isotope_start, self.isotope_end) THEN Panicked
    ELSE ParseInteger(Slice(string, self.isotope_start, self.isotope_end), 65535)

handle_group_state(self, c, i) ==
    IF c = ")"
    THEN IF self.paren_stack - 1 = 0
         THEN [self EXCEPT !.paren_stack = 0, !.group_end = i,
                           !.state = "GroupToGroupCount"]
         ELSE [self EXCEPT !.paren_stack = @ - 1]
    ELSE IF c = "(" THEN [self EXCEPT !.paren_stack = @ + 1]
    ELSE self

\* the Count state at a character that is no digit, and at the end of the
\* input: the count, then the isotope if brackets were read, then the element
IncCounted(self, string) ==
    LET counted(count) ==
            IF count.kind = "panic" THEN Panic(self)
            ELSE IF count.kind = "Err" THEN Return(self, "ElementCountMalformed")
            ELSE LET with(isotope) ==
                         IF isotope.kind = "panic" THEN Panic(self)
                         ELSE IF isotope.kind = "Err"
                              THEN Return(self, "IsotopeCountMalformed")
                              ELSE IncParsedElement(
                                       [self EXCEPT !.count_start = 0, !.count_end = 0],
                                       string, isotope.value, count.value)
                 IN  with(IF self.isotope_end # self.isotope_start
                          THEN ParseIsotope(self, string) ELSE Ok(0))
    IN  counted(parse_element_count(self, string))

\* the IsotopeToCount state at a character that is no digit: the element
\* first, then the isotope, then inc by 1
IncIsotope(self, string) ==
    IF parse_element_from_string(self, string).kind = "panic" THEN Panic(self)
    ELSE LET inc(isotope) ==
                 IF isotope.kind = "panic" THEN Panic(self)
                 ELSE IF isotope.kind = "Err" THEN Return(self, "IsotopeCountMalformed")
                 ELSE IncParsedElement(self, string, isotope.value, 1)
         IN  inc(ParseIsotope(self, string))

RECURSIVE parse_with_table(_)

\* a closed group: parse_with_table on its slice, then acc += &group, or,
\* with a group count, acc += &(&group * group_count); error is what a
\* malformed group count returns
IncGroup(self, string, counted, error) ==
    LET add(group) ==
            IF group.kind = "panic" THEN Panic(self)
            ELSE IF group.kind = "Err" THEN Return(self, group.value)
            ELSE LET scaled(count) ==
                         IF count.kind = "panic" THEN Panic(self)
                         ELSE IF count.kind = "Err" THEN Return(self, error)
                         ELSE [self EXCEPT
                                  !.group_start = 0, !.group_end = 0,
                                  !.group_count_start = 0, !.group_count_end = 0,
                                  !.acc = MapIncAll(@, MapMulBy(group.value,
                                                                count.value).composition,
                                                    DOMAIN group.value.composition, 1)]
                 IN  IF counted THEN scaled(parse_group_count(self, string))
                     ELSE [self EXCEPT
                              !.group_start = 0, !.group_end = 0,
                              !.acc = MapIncAll(@, group.value.composition,
                                                DOMAIN group.value.composition, 1)]
    IN  add(IF ~SliceOk(string, self.group_start, self.group_end) THEN Panicked
            ELSE parse_with_table(Slice(string, self.group_start, self.group_end)))

\* after an entry or a group: the character c at i opens a group, starts an
\* element, or is rejected with error
Resume(self, c, i, paren_stack, error) ==
    IF self.out # <<>> THEN self
    ELSE IF c = "("
         THEN [self EXCEPT !.paren_stack = paren_stack, !.group_start = i + 1,
                           !.state = "Group"]
         ELSE IF is_uppercase(c)
              THEN [self EXCEPT !.element_start = i, !.state = "Element"]
              ELSE Return(self, error)

\* one turn of the loop over string.char_indices(): the character c at i
ParseChar(self, string, i, c) ==
    CASE self.state = "New" ->
            IF is_uppercase(c)
            THEN [self EXCEPT !.element_start = i, !.state = "Element"]
            ELSE IF c = "("
                 THEN [self EXCEPT !.paren_stack = @ + 1, !.group_start = i + 1,
                                   !.state = "Group"]
                 ELSE Return(self, "InvalidStart")
      [] self.state = "Group" -> handle_group_state(self, c, i)
      [] self.state = "Element" ->
            IF is_alphabetic(c)
            THEN IF is_uppercase(c)
                 THEN LET next(s) ==
                              IF s.out # <<>> THEN s
                              ELSE [s EXCEPT !.state = "Element", !.element_start = i,
                                             !.element_end = 0]
                      IN  next(IncParsedElement([self EXCEPT !.element_end = i],
                                                string, 0, 1))
                 ELSE self
            ELSE IF is_numeric(c)
                 THEN [self EXCEPT !.element_end = i, !.count_start = i,
                                   !.state = "Count"]
                 ELSE IF c = "["
                      THEN [self EXCEPT !.isotope_start = i + 1, !.state = "Isotope"]
                      ELSE IF c = "("
                           THEN Resume(IncParsedElement([self EXCEPT !.element_end = i],
                                                        string, 0, 1),
                                       c, i, self.paren_stack + 1, "InvalidElement")
                           ELSE self
      [] self.state = "Isotope" ->
            IF c = "]"
            THEN [self EXCEPT !.isotope_end = i, !.state = "IsotopeToCount"]
            ELSE IF ~is_numeric(c) THEN Return(self, "IsotopeCountMalformed")
                 ELSE self
      [] self.state = "Count" ->
            IF is_numeric(c) THEN self
            ELSE LET next(s) ==
                         IF s.out # <<>> THEN s
                         ELSE Resume([s EXCEPT !.isotope_start = 0, !.isotope_end = 0],
                                     c, i, 1, "InvalidElement")
                 IN  next(IncCounted([self EXCEPT !.count_end = i], string))
      [] self.state = "IsotopeToCount" ->
            IF is_numeric(c)
            THEN [self EXCEPT !.count_start = i, !.state = "Count"]
            ELSE LET next(s) ==
                         IF s.out # <<>> THEN s
                         ELSE Resume([s EXCEPT !.isotope_start = 0, !.isotope_end = 0],
                                     c, i, self.paren_stack + 1, "IsotopeCountMalformed")
                 IN  next(IncIsotope(self, string))
      [] self.state = "GroupToGroupCount" ->
            IF is_numeric(c)
            THEN [self EXCEPT !.group_count_start = i, !.state = "GroupCount"]
            ELSE Resume(IncGroup(self, string, FALSE, "ElementCountMalformed"),
                        c, i, 1, "InvalidElement")
      [] self.state = "GroupCount" ->
            IF is_numeric(c) THEN self
            ELSE Resume(IncGroup([self EXCEPT !.group_count_end = i], string, TRUE,
                                 "ElementCountMalformed"),
                        c, i, 1, "InvalidElement")

\* the loop, from position i on; a return or a panic ends it
RECURSIVE ParseLoop(_, _, _)
ParseLoop(self, string, i) ==
    IF self.out # <<>> \/ i = Len(string) THEN self
    ELSE ParseLoop(ParseChar(self, string, i, string[i + 1]), string, i + 1)

\* the match on the state after the loop, with i = string.len()
ParseEnd(self, string) ==
    IF self.out # <<>> THEN self
    ELSE CASE self.state = "Element" ->
                 IncParsedElement([self EXCEPT !.element_end = Len(string)], string, 0, 1)
           [] self.state = "Count" ->
                 IncCounted([self EXCEPT !.count_end = Len(string)], string)
           [] self.state = "GroupToGroupCount" ->
                 IncGroup(self, string, FALSE, "GroupCountMalformed")
           [] self.state = "GroupCount" ->
                 IncGroup([self EXCEPT !.group_count_end = Len(string)], string, TRUE,
                          "GroupCountMalformed")
           [] OTHER -> Return(self, "IncompleteFormula")

\* FormulaParser::parse_with_table: Ok(acc), Err(error), or Panicked
parse_with_table(string) ==
    LET result(self) ==
            IF self.out = <<>> THEN Ok(self.acc)
            ELSE IF self.out = <<"panic">> THEN Panicked
            ELSE Err(self.out[1])
    IN  result(ParseEnd(ParseLoop(FormulaParserDefault, string, 0), string))

(***************************************************************************)
(* State.                                                                  *)
(*   vec, map : two compositions "a" and "b", each held in the list        *)
(*              strategy (vec) and in the map strategy (map); every        *)
(*              operation is applied to both strategies alike.  "a" is the *)
(*              composition worked on; "b" is built with new and set and   *)
(*              serves as the other operand.                               *)
(*   tid      : a theoretical isotopic pattern;                            *)
(*   stepwise : the last result of transforms applied one after another;   *)
(*   fused    : the last result of the fused transform on the same input;  *)
(*   iter     : the iterator incremental_truncation made of tid, <<>>      *)
(*              before there is one;                                       *)
(*   forms    : the patterns the iterator has yielded, in order;           *)
(*   exhausted : how many calls of next() have returned None;              *)
(*   parameter_cache : the cache of a BafflingRecursiveIsotopicPattern-    *)
(*              Generator;                                                 *)
(*   request  : the arguments of the generator's last call;                *)
(*   status   : "idle" before the first call, then "returned" or "aborted" *)
(*              (the call panicked);                                       *)
(*   peaks    : the peak list the last call returned;                      *)
(*   order    : the working order of the last call's distribution;         *)
(*   overflow_checks : whether the build checks integer overflow;          *)
(*   cache    : an IsotopicConstantsCache used on its own;                 *)
(*   call     : the last operation on cache, its arguments and result;     *)
(*   conv     : the last call of isotopic_convolution, its arguments and   *)
(*              result;                                                    *)
(*   parsed   : the last call of the formula parser, its argument and      *)
(*              result;                                                    *)
(*   poisson  : the last call of poisson_approximate_n_peaks_of over all   *)
(*              of f64: the classes of its arguments and its loop.         *)
(***************************************************************************)
VARIABLES vec, map, tid, stepwise, fused, iter, forms, exhausted,
          parameter_cache, request, status, peaks, order, overflow_checks,
          cache, call, conv, parsed, poisson

compVars == <<vec, map>>

patternVars == <<tid, stepwise, fused, iter, forms, exhausted>>

brainVars == <<parameter_cache, request, status, peaks, order, overflow_checks>>

cacheVars == <<cache, call>>

vars == <<compVars, patternVars, brainVars, cacheVars, conv, parsed, poisson>>

otherThanComp == <<patternVars, brainVars, cacheVars, conv, parsed, poisson>>

otherThanPattern == <<compVars, brainVars, cacheVars, conv, parsed, poisson>>

otherThanBrain == <<compVars, patternVars, cacheVars, conv, parsed, poisson>>

otherThanCache == <<compVars, patternVars, brainVars, conv, parsed, poisson>>

otherThanConvolution == <<compVars, patternVars, brainVars, cacheVars, parsed, poisson>>

otherThanParser == <<compVars, patternVars, brainVars, cacheVars, conv, poisson>>

otherThanPoisson == <<compVars, patternVars, brainVars, cacheVars, conv, parsed>>

Names == {"a", "b"}

Counts == (0 - 1)..MaxCount

VecInRange(c) == \A i \in 1..Len(c.composition) : c.composition[i].count \in Counts

MapInRange(c) == \A k \in DOMAIN c.composition : c.composition[k] \in Counts

EmptyPattern == TheoreticalIsotopicPattern(<<>>, QZero)

\* the parts of the state a specification does not exercise
IdleComp ==
    /\ vec = [t \in Names |-> VecNew]
    /\ map = [t \in Names |-> MapNew]

IdleIter ==
    /\ iter = <<>>
    /\ forms = <<>>
    /\ exhausted = 0

IdlePattern ==
    /\ tid = EmptyPattern
    /\ stepwise = EmptyPattern
    /\ fused = EmptyPattern
    /\ IdleIter

NoRequest == [composition |-> MapNew, npeaks |-> Guess, charge |-> 0]

IdleBrain ==
    /\ parameter_cache = IsotopicConstantsCacheNew
    /\ request = NoRequest
    /\ status = "idle"
    /\ peaks = <<>>
    /\ order = 0
    /\ overflow_checks = FALSE

NoCall == [op |-> "new"]

NoConvolution ==
    [composition |-> MapNew, charge |-> 0, abundance_threshold |-> QZero,
     status |-> "idle", peaks |-> <<>>]

NoPoisson ==
    [mass |-> "zero", threshold |-> "zero", status |-> "idle",
     loop |-> PoissonStart("zero", "pos")]

NoParse == [tokens |-> 0, string |-> <<>>, result |-> [kind |-> "idle", value |-> <<>>]]

IdleCache ==
    /\ cache = IsotopicConstantsCacheNew
    /\ call = NoCall
    /\ conv = NoConvolution
    /\ parsed = NoParse
    /\ poisson = NoPoisson

InitComp ==
    /\ vec = [t \in Names |-> VecNew]
    /\ map = [t \in Names |-> MapNew]
    /\ IdlePattern
    /\ IdleBrain
    /\ IdleCache

\* t = ChemicalComposition::new()
New(t) ==
    /\ vec' = [vec EXCEPT ![t] = VecNew]
    /\ map' = [map EXCEPT ![t] = MapNew]
    /\ UNCHANGED otherThanComp

\* t.set(s, n)
Set(t, s, n) ==
    /\ vec' = [vec EXCEPT ![t] = VecSet(@, s, n)]
    /\ map' = [map EXCEPT ![t] = MapSet(@, s, n)]
    /\ UNCHANGED otherThanComp

\* t.inc(s, d)
Inc(t, s, d) ==
    /\ VecGet(vec[t], s) + d \in Counts
    /\ MapGet(map[t], s) + d \in Counts
    /\ vec' = [vec EXCEPT ![t] = VecInc(@, s, d)]
    /\ map' = [map EXCEPT ![t] = MapInc(@, s, d)]
    /\ UNCHANGED otherThanComp

\* t.fmass()
Fmass(t) ==
    /\ vec' = [vec EXCEPT ![t] = VecFmass(@)]
    /\ map' = [map EXCEPT ![t] = MapFmass(@)]
    /\ UNCHANGED otherThanComp

\* t[&s] = n
IndexMutAssign(t, s, n) ==
    /\ vec' = [vec EXCEPT ![t] = VecIndexMut(@, s, n)]
    /\ map' = [map EXCEPT ![t] = MapIndexMut(@, s, n)]
    /\ UNCHANGED otherThanComp

\* t += &u (sign 1), t -= &u (sign -1); u may be a clone of t
AddSubAssign(t, u, sign) ==
    /\ VecInRange(VecIncAll(vec[t], VecEntries(vec[u]), sign))
    /\ MapInRange(MapIncAll(map[t], map[u].composition, DOMAIN map[u].composition, sign))
    /\ vec' = [vec EXCEPT ![t] = VecIncAll(@, VecEntries(vec[u]), sign)]
    /\ map' = [map EXCEPT ![t] =
                  MapIncAll(@, map[u].composition, DOMAIN map[u].composition, sign)]
    /\ UNCHANGED otherThanComp

\* t *= n
MulAssign(t, n) ==
    /\ VecInRange(VecMulBy(vec[t], n))
    /\ MapInRange(MapMulBy(map[t], n))
    /\ vec' = [vec EXCEPT ![t] = VecMulBy(@, n)]
    /\ map' = [map EXCEPT ![t] = MapMulBy(@, n)]
    /\ UNCHANGED otherThanComp

\* r = &x + &y (sign 1), r = &x - &y (sign -1): a clone of x, then inc per entry
AddSub(r, x, y, sign) ==
    /\ VecInRange(VecIncAll(vec[x], VecEntries(vec[y]), sign))
    /\ MapInRange(MapIncAll(map[x], map[y].composition, DOMAIN map[y].composition, sign))
    /\ vec' = [vec EXCEPT ![r] = VecIncAll(vec[x], VecEntries(vec[y]), sign)]
    /\ map' = [map EXCEPT ![r] =
                  MapIncAll(map[x], map[y].composition, DOMAIN map[y].composition, sign)]
    /\ UNCHANGED otherThanComp

\* r = &x * n: a clone of x, then _mul_by
Mul(r, x, n) ==
    /\ VecInRange(VecMulBy(vec[x], n))
    /\ MapInRange(MapMulBy(map[x], n))
    /\ vec' = [vec EXCEPT ![r] = VecMulBy(vec[x], n)]
    /\ map' = [map EXCEPT ![r] = MapMulBy(map[x], n)]
    /\ UNCHANGED otherThanComp

\* b = ChemicalComposition::from(elements), elements a Vec of
\* (ElementSpecification, i32)
FromVec(elements) ==
    /\ vec' = [vec EXCEPT !["b"] = VecFromVec(elements)]
    /\ map' = [map EXCEPT !["b"] = MapFromIter(elements)]
    /\ UNCHANGED otherThanComp

\* b = elements.into_iter().collect()
FromIter(elements) ==
    /\ vec' = [vec EXCEPT !["b"] = VecFromIter(elements)]
    /\ map' = [map EXCEPT !["b"] = MapFromIter(elements)]
    /\ UNCHANGED otherThanComp

\* a = the list from the map u beside a = the map from the list u
Convert(u) ==
    /\ \E entries \in MapEntries(map[u]) :
           vec' = [vec EXCEPT !["a"] = VecFromMap(entries)]
    /\ map' = [map EXCEPT !["a"] = MapFromVec(vec[u])]
    /\ UNCHANGED otherThanComp

Scalers == (0 - 1)..MaxScale

\* the vectors handed to the constructors: up to MaxEntries pairs of count 1, the
\* specifications repeated or not
ConstructorInputs ==
    UNION {[1..n -> [spec : Specs, count : {1}]] : n \in 0..MaxEntries}

NextComp ==
    \/ \E t \in Names : New(t)
    \/ \E t \in Names, s \in Specs, n \in Counts : Set(t, s, n)
    \/ \E s \in Specs, d \in {0 - 1, 0, 1} : Inc("a", s, d)
    \/ Fmass("a")
    \/ \E s \in Specs, n \in Counts : IndexMutAssign("a", s, n)
    \/ \E u \in Names, sign \in {0 - 1, 1} : AddSubAssign("a", u, sign)
    \/ \E n \in Scalers : MulAssign("a", n)
    \/ \E x \in Names, y \in Names, sign \in {0 - 1, 1} : AddSub("a", x, y, sign)
    \/ \E x \in Names, n \in Scalers : Mul("a", x, n)

SpecComp == InitComp /\ [][NextComp]_vars

(***************************************************************************)
(* Claims about the composition store, checked under SpecComp.             *)
(***************************************************************************)

\* C1: in every reachable state, in both strategies, a populated mass cache
\* equals the sum over the entries of count x mass, and mass() returns that sum
\* (also when fmass cached the mass before a later count-changing operation).
C1_CachedMassIsSum ==
    \A t \in Names :
        /\ vec[t].mass_cache # <<>> => vec[t].mass_cache[1] = VecCalcMass(vec[t])
        /\ map[t].mass_cache # <<>> => map[t].mass_cache[1] = MapCalcMass(map[t])
        /\ VecMass(vec[t]) = VecCalcMass(vec[t])
        /\ MapMass(map[t]) = MapCalcMass(map[t])

\* C2: zero-count entries affect neither equality nor mass: for every reachable
\* composition c and specification s absent from c, c after set(s, 0) compares
\* equal to c and has the same computed mass, and c - c compares equal to the
\* empty composition, in both strategies.
C2_ZeroEntriesIgnored ==
    \A t \in Names :
        /\ \A s \in Specs :
              /\ VecFind(vec[t], s) = 0 =>
                    /\ VecEq(VecSet(vec[t], s, 0), vec[t])
                    /\ VecCalcMass(VecSet(vec[t], s, 0)) = VecCalcMass(vec[t])
              /\ s \notin DOMAIN map[t].composition =>
                    /\ MapEq(MapSet(map[t], s, 0), map[t])
                    /\ MapCalcMass(MapSet(map[t], s, 0)) = MapCalcMass(map[t])
        /\ VecEq(VecIncAll(vec[t], VecEntries(vec[t]), 0 - 1), VecNew)
        /\ MapEq(MapIncAll(map[t], map[t].composition, DOMAIN map[t].composition, 0 - 1),
                 MapNew)

\* C27: in every reachable map composition, access by a bare symbol reads and
\* updates only the isotope-0 entry of the element: get_str(sym) and comp[sym]
\* return the count stored for (sym, 0) (0 when that entry is absent) and never
\* the count of a fixed-isotope entry, they agree with the list strategy's
\* get_str, and inc_str(sym, d) leaves exactly what inc((sym, 0), d) leaves.
C27_BareSymbolIsIsotopeZero ==
    \A t \in Names : \A sym \in {s.element : s \in Specs} :
        /\ MapGetStr(map[t], sym) = {MapGet(map[t], ElementSpecification(sym, 0))}
        /\ MapIndexStr(map[t], sym) = {MapGet(map[t], ElementSpecification(sym, 0))}
        /\ MapGetStr(map[t], sym) = {VecGetStr(vec[t], sym)}
        /\ MapIncStr(map[t], sym, 1) = {MapInc(map[t], ElementSpecification(sym, 0), 1)}

\* C10: the list and the map strategy are observationally equivalent: after the
\* same operations both give the same get for every specification, the same len
\* and is_empty, and the two lists compare equal exactly when the two maps do.
C10_ListMapEquivalent ==
    /\ \A t \in Names :
          /\ \A s \in Specs : VecGet(vec[t], s) = MapGet(map[t], s)
          /\ VecLen(vec[t]) = MapLen(map[t])
          /\ VecIsEmpty(vec[t]) = MapIsEmpty(map[t])
    /\ VecEq(vec["a"], vec["b"]) <=> MapEq(map["a"], map["b"])

(***************************************************************************)
(* The composition store with its constructors.  "b" is built by a         *)
(* constructor from a vector of pairs; "a" is converted between the        *)
(* strategies, mutated and computed from "a" and "b".  No mass is cached.  *)
(***************************************************************************)
NextBuild ==
    \/ \E t \in Names : New(t)
    \/ \E elements \in ConstructorInputs : FromVec(elements)
    \/ \E elements \in ConstructorInputs : FromIter(elements)
    \/ \E u \in Names : Convert(u)
    \/ \E s \in Specs, n \in Counts : Set("a", s, n)
    \/ \E s \in Specs, d \in {0 - 1, 1} : Inc("a", s, d)
    \/ \E sign \in {0 - 1, 1} : AddSubAssign("a", "b", sign)
    \/ \E n \in Scalers : MulAssign("a", n)
    \/ \E x \in Names, sign \in {0 - 1, 1} : AddSub("a", x, "b", sign)
    \/ \E n \in Scalers : Mul("a", "b", n)

SpecBuild == InitComp /\ [][NextBuild]_vars

\* C11: every composition the constructors and the mutators produce holds at
\* most one entry per (element, isotope) specification, in both strategies.
C11_OneEntryPerSpecification ==
    \A t \in Names :
        /\ \A i \in 1..VecLen(vec[t]) : VecFind(vec[t], vec[t].composition[i].spec) = i
        /\ MapLen(map[t]) = Cardinality({k : k \in DOMAIN map[t].composition})

\* C12: get of a specification that is not stored returns 0; after set(s, c),
\* get(s) = c and get(u) is unchanged for every other specification u, another
\* isotope of the same element included; inc(s, d) adds d to get(s) with the
\* same frame; in both strategies.
C12_GetSetIncFrame ==
    \A t \in Names : \A s \in Specs :
        /\ VecFind(vec[t], s) = 0 => VecGet(vec[t], s) = 0
        /\ s \notin DOMAIN map[t].composition => MapGet(map[t], s) = 0
        /\ \A c \in Counts :
              /\ VecGet(VecSet(vec[t], s, c), s) = c
              /\ MapGet(MapSet(map[t], s, c), s) = c
              /\ \A u \in Specs \ {s} :
                    /\ VecGet(VecSet(vec[t], s, c), u) = VecGet(vec[t], u)
                    /\ MapGet(MapSet(map[t], s, c), u) = MapGet(map[t], u)
        /\ \A d \in {0 - 1, 0, 1} :
              /\ VecGet(VecInc(vec[t], s, d), s) = VecGet(vec[t], s) + d
              /\ MapGet(MapInc(map[t], s, d), s) = MapGet(map[t], s) + d
              /\ \A u \in Specs \ {s} :
                    /\ VecGet(VecInc(vec[t], s, d), u) = VecGet(vec[t], u)
                    /\ MapGet(MapInc(map[t], s, d), u) = MapGet(map[t], u)

\* set and inc left the two isotopes of one element with different counts,
\* one of them stored only in "a"
C12_Witness ==
    /\ VecGet(vec["a"], ElementSpecification("H", 0)) = MaxCount
    /\ MapGet(map["a"], ElementSpecification("H", 0)) = MaxCount
    /\ VecGet(vec["a"], ElementSpecification("H", 2)) = 0 - 1
    /\ MapGet(map["a"], ElementSpecification("H", 2)) = 0 - 1
    /\ VecFind(vec["b"], ElementSpecification("H", 0)) = 0
    /\ ElementSpecification("H", 0) \notin DOMAIN map["b"].composition
    /\ MapGet(map["b"], ElementSpecification("H", 2)) = MaxCount

\* C13: for all compositions x and y, every specification s and every factor
\* n, (x + y).get(s) = x.get(s) + y.get(s), (x - y).get(s) = x.get(s) - y.get(s)
\* and (x * n).get(s) = n * x.get(s), in both strategies (the in-place forms run
\* the same loops).
C13_ArithmeticPointwise ==
    \A x \in Names : \A y \in Names : \A s \in Specs :
        /\ \A sign \in {0 - 1, 1} :
              /\ VecGet(VecIncAll(vec[x], VecEntries(vec[y]), sign), s)
                    = VecGet(vec[x], s) + sign * VecGet(vec[y], s)
              /\ MapGet(MapIncAll(map[x], map[y].composition, DOMAIN map[y].composition, sign), s)
                    = MapGet(map[x], s) + sign * MapGet(map[y], s)
        /\ \A n \in Scalers :
              /\ VecGet(VecMulBy(vec[x], n), s) = n * VecGet(vec[x], s)
              /\ MapGet(MapMulBy(map[x], n), s) = n * MapGet(map[x], s)

(***************************************************************************)
(* Pattern transforms.  The input pattern is any list of up to MaxPeaks    *)
(* peaks with positive intensities (TheoreticalIsotopicPattern::new takes  *)
(* any peak list), at m/z 0, 1, 2, ...                                     *)
(***************************************************************************)
Intensities == {Q(1, 1000), Q(1, 20), Q(1, 10), Q(17, 20), Q(949, 1000)}

PeakLists ==
    UNION {[1..n -> Intensities] : n \in 0..MaxPeaks}

MakePattern(ints) ==
    TheoreticalIsotopicPattern([i \in 1..Len(ints) |-> Peak(QInt(i - 1), ints[i])], QZero)

TruncateThresholds == {Q(19, 20), Q(1, 2)}

IgnoreThresholds == {Q(1, 1000), Q(1, 10)}

Shifts == {QZero, QInt(10)}

InitPattern ==
    /\ IdleComp
    /\ IdleBrain
    /\ IdleCache
    /\ tid \in {MakePattern(ints) : ints \in PeakLists}
    /\ stepwise = EmptyPattern
    /\ fused = EmptyPattern
    /\ IdleIter

\* tid.clone().truncate_after(t).ignore_below(b).shift(s) beside
\* tid.clone().truncate_after_ignore_below_shift_normalize(t, b, s)
TruncateIgnoreShift(t, b, s) ==
    /\ stepwise' = Shift(IgnoreBelow(TruncateAfter(tid, t), b), s)
    /\ fused' = TruncateAfterIgnoreBelowShiftNormalize(tid, t, b, s)
    /\ UNCHANGED <<tid, iter, forms, exhausted, otherThanPattern>>

\* iter = tid.clone().incremental_truncation(threshold)
StartTruncation(threshold) ==
    /\ iter' = <<IncrementalTruncation(tid, threshold)>>
    /\ forms' = <<>>
    /\ exhausted' = 0
    /\ UNCHANGED <<tid, stepwise, fused, otherThanPattern>>

\* iter.next(), the item pushed on forms
NextForm ==
    /\ iter # <<>>
    /\ exhausted < MaxPolls
    /\ \E r \in {IterNext(iter[1])} :
           /\ iter' = <<r.iter>>
           /\ forms' = forms \o r.item
           /\ exhausted' = IF r.item = <<>> THEN exhausted + 1 ELSE exhausted
    /\ UNCHANGED <<tid, stepwise, fused, otherThanPattern>>

NextPattern ==
    \/ \E t \in TruncateThresholds, b \in IgnoreThresholds, s \in Shifts :
          TruncateIgnoreShift(t, b, s)
    \/ \E t \in TruncateThresholds : StartTruncation(t)
    \/ NextForm

SpecPattern == InitPattern /\ [][NextPattern]_vars

\* C3: for every input pattern and thresholds (t, b), truncate_after(t) followed
\* by ignore_below(b) keeps exactly the same peaks with the same renormalized
\* intensities as truncate_after_ignore_below_shift_normalize(t, b, 0.0).
C3_FusedEqualsStepwise == stepwise.peaks = fused.peaks

\* the number of peaks whose preceding peaks sum to less than the threshold
KeptByThreshold(p, threshold) ==
    Cardinality({i \in 1..Len(p.peaks) : QLt(Cumulative(p.peaks, i - 1), threshold)})

\* C14: truncate_after(threshold) keeps peak i exactly when the cumulative
\* intensity of the peaks before i is below the threshold (every peak when the
\* total never reaches it) and rescales the kept intensities to sum to 1.
C14_TruncateAfterKeepsPrefix ==
    \A t \in TruncateThresholds :
        TruncateAfter(tid, t).peaks
            = SliceNormalized(tid, 0, KeptByThreshold(tid, t)).peaks

\* the prefix lengths whose cumulative normalized intensity exceeds the
\* iterator's threshold
FormLengths ==
    {k \in 1..Len(tid.peaks) :
        QLt(iter[1].threshold, Cumulative(Normalize(tid).peaks, k))}

\* C15: the iterator yields one renormalized prefix per length k, from the
\* longest to the shortest, for every k from n down to 1 whose cumulative
\* intensity exceeds the threshold, and nothing after it ended.
C15_OnePrefixPerLength ==
    iter # <<>> =>
        /\ Len(forms) <= Cardinality(FormLengths)
        /\ \A j \in 1..Len(forms) :
              forms[j].peaks = SliceNormalized(Normalize(tid), 0, Len(tid.peaks) - j + 1).peaks
        /\ exhausted > 0 => Len(forms) = Cardinality(FormLengths)

\* C16: for a pattern with at least one peak and a threshold below 1, the full
\* normalized pattern is one of the yielded elements.
C16_YieldsFullPattern ==
    (iter # <<>> /\ exhausted > 0 /\ tid.peaks # <<>> /\ QLt(iter[1].threshold, QOne))
        => \E j \in 1..Len(forms) : forms[j].peaks = Normalize(tid).peaks

\* C17: clone_drop_last of a pattern with n >= 1 peaks is the normalized copy
\* of its first n - 1 peaks.
C17_CloneDropsLast ==
    tid.peaks # <<>> =>
        CloneDropLast(tid).peaks = SliceNormalized(tid, 0, Len(tid.peaks) - 1).peaks

\* C29: the fused call adds the shift to the recorded origin as shift does: for
\* every template, thresholds and shift s the fused result's origin is the
\* template's origin plus s, and after the two pipelines ran the fused and the
\* step-wise result have the same origin.
C29_FusedShiftsOrigin ==
    /\ stepwise.origin = fused.origin
    /\ \A t \in TruncateThresholds, b \in IgnoreThresholds, s \in Shifts :
          TruncateAfterIgnoreBelowShiftNormalize(tid, t, b, s).origin = QAdd(tid.origin, s)

\* C28: equality of patterns holds only between patterns with the same number
\* of peaks: of the patterns at hand (the template, the two truncated copies
\* and the yielded forms) two that compare equal have the same length, and a
\* non-empty template equals neither a strict prefix of itself nor the empty
\* pattern.
C28_EqualityNeedsSameLength ==
    LET at_hand == {tid, stepwise, fused} \cup {forms[j] : j \in 1..Len(forms)}
    IN  /\ \A p \in at_hand : \A q \in at_hand :
               PatternEq(p, q) => Len(p.peaks) = Len(q.peaks)
        /\ \A n \in 0..(Len(tid.peaks) - 1) :
               ~PatternEq(tid, [tid EXCEPT !.peaks = SubSeq(tid.peaks, 1, n)])

(***************************************************************************)
(* The pattern generator.  A caller binds the arguments of a call (a       *)
(* composition over H and X, a peak count specification and a charge; the  *)
(* charge carrier is 1) and the generator then serves it.  The counts of H *)
(* are those inc and the subtraction of compositions produce, from -1 on.  *)
(* A panic ends the run.                                                   *)
(***************************************************************************)
AtomCounts ==
    [s \in {ElementSpecification("H", 0), ElementSpecification("X", 0)} |->
        IF s.element = "H" THEN (0 - 1)..MaxAtoms ELSE {1, 2}]

BrainCompositions ==
    {[composition |-> f, mass_cache |-> <<>>] :
        f \in UNION {{g \in [S -> (0 - 1)..MaxAtoms] : \A s \in S : g[s] \in AtomCounts[s]} :
                        S \in SUBSET DOMAIN AtomCounts}}

PeakRequests == {Guess} \cup {FixedCount(n) : n \in 1..MaxRequest}

Charges == {0, 1}

InitBrain ==
    /\ IdleComp
    /\ IdlePattern
    /\ IdleCache
    /\ parameter_cache = IsotopicConstantsCacheNew
    /\ request = NoRequest
    /\ status = "idle"
    /\ peaks = <<>>
    /\ order = 0
    /\ overflow_checks \in BOOLEAN

\* the caller's next call: its arguments
Request(composition, npeaks, charge) ==
    /\ status \in {"idle", "returned"}
    /\ request' = [composition |-> composition, npeaks |-> npeaks, charge |-> charge]
    /\ status' = "requested"
    /\ peaks' = <<>>
    /\ order' = 0
    /\ UNCHANGED <<parameter_cache, overflow_checks, otherThanBrain>>

\* generator.isotopic_variants(composition, npeaks, charge, 1.0)
IsotopicVariants ==
    /\ status = "requested"
    /\ \E r \in {GeneratorVariants(parameter_cache, request.composition, request.npeaks,
                                     request.charge, QOne, overflow_checks)} :
           /\ parameter_cache' = r.parameter_cache
           /\ status' = IF r.aborted THEN "aborted" ELSE "returned"
           /\ peaks' = r.peaks
           /\ order' = r.order
    /\ UNCHANGED <<request, overflow_checks, otherThanBrain>>

NextBrain ==
    \/ \E c \in BrainCompositions, n \in PeakRequests, z \in Charges : Request(c, n, z)
    \/ IsotopicVariants

SpecBrain == InitBrain /\ [][NextBrain]_vars

(***************************************************************************)
(* Claims about the BRAIN engine and the generator, checked under          *)
(* SpecBrain.                                                              *)
(***************************************************************************)
Served == status \in {"returned", "aborted"}

Count(s) == request.composition.composition[s]

Elements == {s.element : s \in DOMAIN request.composition.composition}

\* C4: for every composition without negative counts and every requested peak
\* count, the intensities of the returned peaks sum to 1 within 1e-6 (the
\* normalization total covers exactly the peaks returned).
C4_IntensitiesSumToOne ==
    (status = "returned" /\ \A s \in DOMAIN request.composition.composition : Count(s) >= 0)
        => LET off == QSub(QSum([i \in 1..Len(peaks) |-> peaks[i].intensity]), QOne)
           IN  Abs(off[1]) * 1000000 <= off[2]

\* C5: a call with FixedCount(N), N >= 1, returns at most N peaks, and exactly
\* N peaks when N <= max_variants + 1 and the intensity floor removed no peak
\* (every peak up to the working order was emitted).
C5_FixedCountPeaks ==
    (status = "returned" /\ request.npeaks.kind = "FixedCount" /\ request.npeaks.count >= 1)
        => /\ Len(peaks) <= request.npeaks.count
           /\ (/\ request.npeaks.count <= max_variants(request.composition) + 1
               /\ Len(peaks) = order + 1)
                  => Len(peaks) = request.npeaks.count

\* the order fill_from_composition hands to update_order
RequestedOrder ==
    num_peaks(FromI32(num_peaks(request.npeaks, request.composition)),
              request.composition) + 1

\* C6: for every composition the composition operations produce and every
\* request, the call does not abort, the working order is min(requested order,
\* max_variants) and lies in 0..max_variants, and at most order + 1 peaks are
\* emitted.
C6_OrderClampedNoAbort ==
    Served
        => /\ status = "returned"
           /\ order = Min(RequestedOrder, max_variants(request.composition))
           /\ order \in 0..max_variants(request.composition)
           /\ Len(peaks) <= order + 1

\* C7: when a generator call returns, the cache holds constants for every
\* element of the composition, the entries of other elements are unchanged, and
\* no element's cached order is lower than before the call; no step that is not
\* a panic removes an entry or lowers its order.
C7_CacheNeverRegresses ==
    [][/\ status' # "aborted" =>
            \A k \in DOMAIN parameter_cache :
                /\ k \in DOMAIN parameter_cache'
                /\ parameter_cache'[k].order >= parameter_cache[k].order
       /\ (status = "requested" /\ status' = "returned") =>
            /\ \A k \in Elements : k \in DOMAIN parameter_cache'
            /\ \A k \in DOMAIN parameter_cache' :
                  k \notin Elements =>
                      k \in DOMAIN parameter_cache /\ parameter_cache'[k] = parameter_cache[k]
      ]_vars

\* a call returned that left an element's constants at a higher order than it
\* found them at, beside the untouched constants of an element not in the call
C7_Witness ==
    /\ status = "returned"
    /\ Elements = {"H"}
    /\ DOMAIN parameter_cache = {"H", "X"}
    /\ parameter_cache["H"].order > 3

\* C8: every generator call ends as the stateless isotopic_variants called with
\* the same arguments does: it returns the same peak list, whatever constants
\* earlier calls left in the cache.
C8_GeneratorEqualsStateless ==
    Served
        => isotopic_variants(request.composition, request.npeaks, request.charge,
                             QOne, overflow_checks)
               = [aborted |-> status = "aborted", peaks |-> peaks]

\* a call returned several peaks from constants an earlier call had cached at a
\* higher order than this call's working order asks for
C8_Witness ==
    /\ status = "returned"
    /\ Len(peaks) >= 2
    /\ order >= 1
    /\ \E k \in Elements : parameter_cache[k].order > order + 2

\* C22: for every element, isotopic_coefficients builds an accumulator in
\* which each isotope of neutron shift s contributes its abundance (times its
\* mass when with_mass) at index max_neutron_shift - s, and every index with no
\* isotope holds 0: no isotope of the element is omitted.
C22_CoefficientsCoverEveryIsotope ==
    \A k \in Elements, with_mass \in BOOLEAN :
        \A accumulator \in {isotopic_coefficients(PERIODIC_TABLE[k], with_mass)} :
            /\ \A n \in DOMAIN PERIODIC_TABLE[k].isotopes :
                  \A isotope \in {PERIODIC_TABLE[k].isotopes[n]} :
                      /\ PERIODIC_TABLE[k].max_neutron_shift - isotope.neutron_shift
                             < Len(accumulator)
                      /\ accumulator[PERIODIC_TABLE[k].max_neutron_shift
                                         - isotope.neutron_shift + 1]
                             = QMul(IF with_mass THEN QInt(isotope.mass) ELSE QOne,
                                    isotope.abundance)
            /\ \A j \in 1..Len(accumulator) :
                  (\A n \in DOMAIN PERIODIC_TABLE[k].isotopes :
                       PERIODIC_TABLE[k].max_neutron_shift
                           - PERIODIC_TABLE[k].isotopes[n].neutron_shift # j - 1)
                      => accumulator[j] = QZero

\* the elementary symmetric polynomial and the power sum of both parameters
\* of one element's constants are four vectors of one length
LockStep(phi) ==
    /\ Len(phi.element_coefficients.elementary_symmetric_polynomial)
           = Len(phi.element_coefficients.power_sum)
    /\ Len(phi.mass_coefficients.elementary_symmetric_polynomial)
           = Len(phi.mass_coefficients.power_sum)
    /\ Len(phi.element_coefficients.power_sum) = Len(phi.mass_coefficients.power_sum)

\* C23: for both PolynomialParameters of every PhiConstants, after
\* from_element and after every update at any working order, the elementary
\* symmetric polynomial and the power sum have the same length, and the two
\* PolynomialParameters of one element have equal lengths.
C23_VectorsInLockStep ==
    /\ \A k \in Elements : LockStep(PhiFromElement(PERIODIC_TABLE[k]))
    /\ \A k \in DOMAIN parameter_cache : LockStep(parameter_cache[k])

\* calls left the constants of X, updated past the order from_element gives
\* them, beside those of another element
C23_Witness ==
    /\ status = "returned"
    /\ "X" \in DOMAIN parameter_cache
    /\ parameter_cache["X"].order > PERIODIC_TABLE["X"].max_neutron_shift
    /\ Len(parameter_cache["X"].mass_coefficients.power_sum)
           > PERIODIC_TABLE["X"].max_neutron_shift + 1
    /\ Cardinality(DOMAIN parameter_cache) > 1

\* the distribution of the pending call once its constants are populated from
\* the parameter cache and updated
Populated ==
    populate_constants_from_cache(
        fill_from_composition(request.composition,
                              FromI32(num_peaks(request.npeaks, request.composition))),
        parameter_cache).inst

\* C30: for every call made in any reachable state of the parameter cache,
\* after populate_constants_from_cache (and after populate_constants, which
\* builds every element afresh) and update, the constants hold every element
\* of the composition and each one's count-weighted and mass-weighted power
\* sums are longer than the call's working order, so power_sum[k] exists for
\* 1 <= k <= order.
C30_PowerSumsReachOrder ==
    status = "requested" =>
        /\ \A inst \in {Populated} :
              /\ PowerSumsReach(inst)
              /\ \A s \in DOMAIN inst.composition.composition :
                    s.element \in DOMAIN inst.constants.constants
        /\ PowerSumsReach(from_composition(
               request.composition,
               FromI32(num_peaks(request.npeaks, request.composition))))

\* a call is pending whose working order is at least 1, with the constants of
\* X in the cache at a higher order and those of H to be built afresh
C30_Witness ==
    /\ status = "requested"
    /\ {s.element : s \in DOMAIN request.composition.composition} = {"H", "X"}
    /\ "H" \notin DOMAIN parameter_cache
    /\ "X" \in DOMAIN parameter_cache
    /\ Populated.order >= 1
    /\ parameter_cache["X"].order > Populated.order

\* a call is pending with the constants of H in the cache at an order below the
\* call's working order
C30_WitnessLower ==
    /\ status = "requested"
    /\ "H" \in DOMAIN parameter_cache
    /\ ElementSpecification("H", 0) \in DOMAIN request.composition.composition
    /\ parameter_cache["H"].order <= Populated.order

\* the 1-based indices the peak loop ought to keep: the orders of intensity
\* at least 1e-10, and the near-zero orders before the first of those
KeptOrders(probability, total, n) ==
    {i \in 1..n :
        \/ ~BelowFloor(FDiv(probability[i], total))
        \/ \A h \in 1..i : BelowFloor(FDiv(probability[h], total))}

\* C25: in the BRAIN output only entries whose normalized intensity is below
\* 1e-10 are ever dropped: every isotopologue order up to the working order
\* with intensity >= 1e-10 appears in the output, every near-zero order that
\* precedes the first genuine peak appears, and no near-zero order that follows
\* a genuine peak appears.
C25_OnlyNearZeroDropped ==
    status = "returned" =>
        \A inst \in {from_composition(request.composition,
                                      FromI32(num_peaks(request.npeaks,
                                                        request.composition)))} :
            inst.order >= 0 =>
                \A probability \in {probability_vector(inst)} :
                    \A centers \in {center_mass_vector(inst, probability)} :
                        \A kept \in {KeptOrders(probability, QSum(probability),
                                                inst.order + 1)} :
                            /\ Len(peaks) = Cardinality(kept)
                            /\ \A i \in kept :
                                  \E j \in 1..Len(peaks) :
                                      /\ peaks[j].intensity
                                             = FDiv(probability[i], QSum(probability))
                                      /\ peaks[j].mz
                                             = IF request.charge # 0
                                               THEN mass_charge_ratio(centers[i],
                                                                      request.charge, QOne)
                                               ELSE centers[i]

(***************************************************************************)
(* The constants cache on its own.  A caller hands it constants with       *)
(* receive and receive_from and takes them out with checkout.  The         *)
(* constants are those of H brought to the orders 0..MaxOrder and those of *)
(* X as from_element leaves them; receive pairs any of them with any       *)
(* symbol, and receive_from drains up to MaxDrain pairs, symbols repeated  *)
(* or not.                                                                 *)
(***************************************************************************)
CacheSymbols == {"H", "X"}

CacheConstants ==
    {UpdateParams(PhiFromElement(PERIODIC_TABLE["H"]), o) : o \in 0..MaxOrder}
        \cup {PhiFromElement(PERIODIC_TABLE["X"])}

CachePairs == CacheSymbols \X CacheConstants

Drains == UNION {[1..n -> CachePairs] : n \in 0..MaxDrain}

InitCache ==
    /\ IdleComp
    /\ IdlePattern
    /\ IdleBrain
    /\ cache = IsotopicConstantsCacheNew
    /\ call = NoCall
    /\ conv = NoConvolution
    /\ parsed = NoParse
    /\ poisson = NoPoisson

\* stored = cache.receive(symbol, constants)
ReceiveOne(symbol, constants) ==
    /\ \E r \in {Receive(cache, symbol, constants)} :
           /\ cache' = r.cache
           /\ call' = [op |-> "receive", symbol |-> symbol, constants |-> constants,
                       stored |-> r.stored]
    /\ UNCHANGED otherThanCache

\* cache.receive_from(params), params.constants being pairs
ReceiveFromParams(pairs) ==
    /\ cache' = ReceiveLoop(cache, pairs)
    /\ call' = [op |-> "receive_from", drained |-> Len(pairs)]
    /\ UNCHANGED otherThanCache

\* cache.checkout(symbol)
CheckoutOne(symbol) ==
    /\ cache' = Checkout(cache, symbol)
    /\ call' = [op |-> "checkout", symbol |-> symbol, found |-> symbol \in DOMAIN cache]
    /\ UNCHANGED otherThanCache

NextCache ==
    \/ \E symbol \in CacheSymbols, constants \in CacheConstants : ReceiveOne(symbol, constants)
    \/ \E pairs \in Drains : ReceiveFromParams(pairs)
    \/ \E symbol \in CacheSymbols : CheckoutOne(symbol)

SpecCache == InitCache /\ [][NextCache]_vars

\* C9: receive(symbol, c) stores c and returns true exactly when the cache has
\* no entry for symbol or the entry's order is <= c.order, and otherwise returns
\* false and leaves the cache as it was; no receive or receive_from removes an
\* entry or lowers the order cached for a symbol.
C9_ReceiveNeverDowngrades ==
    [][/\ call'.op = "receive" =>
            /\ call'.stored = (\/ call'.symbol \notin DOMAIN cache
                               \/ cache[call'.symbol].order <= call'.constants.order)
            /\ call'.stored =>
                  cache' = [k \in (DOMAIN cache) \cup {call'.symbol} |->
                               IF k = call'.symbol THEN call'.constants ELSE cache[k]]
            /\ ~call'.stored => cache' = cache
       /\ call'.op \in {"receive", "receive_from"} =>
            \A k \in DOMAIN cache :
                /\ k \in DOMAIN cache'
                /\ cache'[k].order >= cache[k].order
      ]_vars

\* receive refused constants of a lower order than the cached ones, beside an
\* entry of another symbol
C9_Witness ==
    /\ call.op = "receive"
    /\ ~call.stored
    /\ cache[call.symbol].order > call.constants.order
    /\ DOMAIN cache = CacheSymbols

(***************************************************************************)
(* The convolution engine, called with compositions over H and Z, a charge *)
(* (the charge carrier is 1) and an abundance threshold.                   *)
(***************************************************************************)
ConvolutionCompositions ==
    {[composition |-> f, mass_cache |-> <<>>] :
        f \in UNION {[S -> 0..MaxPower] :
                        S \in SUBSET {ElementSpecification("H", 0),
                                      ElementSpecification("Z", 0)}}}

AbundanceThresholds == {QZero, Q(1, 1000), Q(1, 4), Q(1, 2)}

InitConvolution ==
    /\ IdleComp
    /\ IdlePattern
    /\ IdleBrain
    /\ cache = IsotopicConstantsCacheNew
    /\ call = NoCall
    /\ conv = NoConvolution
    /\ parsed = NoParse
    /\ poisson = NoPoisson

\* isotopic_convolution(composition, charge, 1.0, abundance_threshold)
IsotopicConvolution(composition, charge, abundance_threshold) ==
    /\ \E r \in {isotopic_convolution(composition, charge, QOne, abundance_threshold)} :
           conv' = [composition |-> composition, charge |-> charge,
                    abundance_threshold |-> abundance_threshold,
                    status |-> IF r.aborted THEN "aborted" ELSE "returned",
                    peaks |-> r.peaks]
    /\ UNCHANGED otherThanConvolution

NextConvolution ==
    \E c \in ConvolutionCompositions, z \in Charges, t \in AbundanceThresholds :
        IsotopicConvolution(c, z, t)

SpecConvolution == InitConvolution /\ [][NextConvolution]_vars

\* an empty list or a single peak of neutral mass 0
EmptyOrZeroMass(list, charge) ==
    \/ list = <<>>
    \/ /\ Len(list) = 1
       /\ list[1].mz = IF charge # 0 THEN mass_charge_ratio(QZero, charge, QOne) ELSE QZero

\* C18: for the empty composition, and for a composition whose every
\* convolution term falls below the abundance threshold, isotopic_convolution
\* returns an empty list or a single zero-mass peak, and so does
\* isotopic_variants for the empty composition; neither aborts.
C18_EnginesTotalOnDegenerate ==
    conv.status # "idle" =>
        /\ (\/ MapIsEmpty(conv.composition)
            \/ ConvolutionTerms(conv.composition, conv.abundance_threshold) = <<>>)
              => /\ conv.status = "returned"
                 /\ EmptyOrZeroMass(conv.peaks, conv.charge)
        /\ MapIsEmpty(conv.composition)
              => \A checks \in BOOLEAN :
                    \A r \in {isotopic_variants(conv.composition, Guess, conv.charge,
                                                 QOne, checks)} :
                        ~r.aborted /\ EmptyOrZeroMass(r.peaks, conv.charge)

RECURSIVE QProduct(_)
QProduct(s) == IF s = <<>> THEN QOne ELSE QMul(QProduct(SubSeq(s, 1, Len(s) - 1)), s[Len(s)])

\* the term of the n-fold self-convolution of dist that takes the entries
\* pick[1], ..., pick[n] of dist
TupleTerm(dist, pick) ==
    <<QSum([i \in DOMAIN pick |-> dist[pick[i]][1]]),
      QProduct([i \in DOMAIN pick |-> dist[pick[i]][2]])>>

\* out holds the terms of all n-tuples of entries of dist, each as often as
\* tuples give it
IsSelfConvolution(out, dist, n) ==
    /\ Len(out) = Cardinality([1..n -> 1..Len(dist)])
    /\ \A pick \in [1..n -> 1..Len(dist)] :
          \A term \in {TupleTerm(dist, pick)} :
              Cardinality({i \in 1..Len(out) : out[i] = term})
                  = Cardinality({other \in [1..n -> 1..Len(dist)] :
                                    TupleTerm(dist, other) = term})

\* C24: with abundance threshold 0 and an empty output buffer,
\* convolve_pow(dist, n) produces for every n >= 0 exactly the n-fold
\* self-convolution of dist: the multiset of (sum of masses, product of
\* abundances) over all n-tuples of entries of dist, the single term (0, 1) for
\* n = 0, for powers of two and non-powers of two alike.
C24_PowIsSelfConvolution ==
    (conv.status # "idle" /\ conv.abundance_threshold = QZero)
        => \A es \in DOMAIN conv.composition.composition :
              \A dist \in {IsotopePairs(PERIODIC_TABLE[es.element].isotopes,
                                        DOMAIN PERIODIC_TABLE[es.element].isotopes)} :
                  IsSelfConvolution(convolve_pow(dist, conv.composition.composition[es],
                                                 conv.abundance_threshold),
                                    dist, conv.composition.composition[es])

\* the engine returned for a composition with three atoms of H, which has
\* two isotopes, under the abundance threshold 0
C24_Witness ==
    /\ conv.status = "returned"
    /\ conv.abundance_threshold = QZero
    /\ ElementSpecification("H", 0) \in DOMAIN conv.composition.composition
    /\ conv.composition.composition[ElementSpecification("H", 0)] = 3
    /\ Len(conv.peaks) > 1

\* the mass-to-charge ratio a pattern-producing function ought to report for
\* a neutral mass: the mass itself for charge 0
ExpectedMz(mass, charge) ==
    IF charge = 0 THEN mass
    ELSE QDiv(QAdd(mass, QMul(QInt(charge), PROTON)), QInt(Abs(charge)))

ApproximationPeaks == {1, 2}

\* C26: charge 0 means neutral in every pattern-producing function:
\* isotopic_variants, isotopic_convolution and poisson_approximation return
\* neutral masses without the m/z division when charge = 0 and apply
\* mz = (mass + z x carrier) / |z| only when charge is non-zero.
C26_ChargeZeroIsNeutral ==
    conv.status # "idle" =>
        /\ \A out \in {isotopic_convolution(conv.composition, conv.charge, PROTON,
                                            conv.abundance_threshold)} :
              ~out.aborted =>
                  \A terms \in {ConvolutionTerms(conv.composition,
                                                 conv.abundance_threshold)} :
                      \A i \in 1..Len(out.peaks) :
                          \E t \in 1..Len(terms) :
                              out.peaks[i].mz = ExpectedMz(terms[t][1], conv.charge)
        /\ \A out \in {isotopic_variants(conv.composition, Guess, conv.charge, PROTON,
                                         FALSE)} :
              ~out.aborted =>
                  \A inst \in {from_composition(conv.composition,
                                                FromI32(num_peaks(Guess, conv.composition)))} :
                      \A centers \in {center_mass_vector(inst, probability_vector(inst))} :
                          \A i \in 1..Len(out.peaks) :
                              \E c \in 1..Len(centers) :
                                  out.peaks[i].mz = ExpectedMz(centers[c], conv.charge)
        /\ \A n_peaks \in ApproximationPeaks :
              \A out \in {poisson_approximation(QInt(MapMass(conv.composition)), n_peaks,
                                                conv.charge)} :
                  \A i \in 1..n_peaks :
                      out[i].mz = ExpectedMz(QAdd(QInt(MapMass(conv.composition)),
                                                  QMul(QInt(i - 1), NEUTRON_SHIFT)),
                                             conv.charge)

(***************************************************************************)
(* The formula parser.  The caller spells a formula token by token, at     *)
(* most MaxTokens of them, and parses what it has after each token; the    *)
(* tokens are two symbols of the table, a symbol the table does not hold,  *)
(* an isotope in brackets, a count, the group brackets, and an open        *)
(* bracket.                                                                *)
(***************************************************************************)
FormulaTokens ==
    {<<"H">>, <<"Z">>, <<"X", "x">>, <<"[", "2", "]">>, <<"3">>, <<"(">>, <<")">>,
     <<"[">>}

InitParser ==
    /\ IdleComp
    /\ IdlePattern
    /\ IdleBrain
    /\ cache = IsotopicConstantsCacheNew
    /\ call = NoCall
    /\ conv = NoConvolution
    /\ parsed = NoParse
    /\ poisson = NoPoisson

\* parse_formula(string), string the formula so far and one more token
ParseFormula(token) ==
    /\ parsed.tokens < MaxTokens
    /\ parsed' = [tokens |-> parsed.tokens + 1, string |-> parsed.string \o token,
                  result |-> parse_with_table(parsed.string \o token)]
    /\ UNCHANGED otherThanParser

NextParser == \E token \in FormulaTokens : ParseFormula(token)

SpecParser == InitParser /\ [][NextParser]_vars

\* C19: parsing a formula that names a symbol absent from the periodic table
\* returns a FormulaParserError value; the call neither aborts nor succeeds
\* with another element in the symbol's place.
C19_UnknownSymbolIsError ==
    (/\ parsed.result.kind # "idle"
     /\ \E i \in 1..Len(parsed.string) :
            /\ is_uppercase(parsed.string[i])
            /\ \E j \in i..Len(parsed.string) :
                   /\ \A k \in (i + 1)..j : parsed.string[k] \in AsciiLowercase
                   /\ j < Len(parsed.string) => parsed.string[j + 1] \notin AsciiLowercase
                   /\ TableKeys(SubSeq(parsed.string, i, j)) = {})
        => parsed.result.kind = "Err"

\* formulas of a plain part, H with the fixed isotope 2 and a count (0 for
\* none written), and a plain part; a plain part is nothing, Z, or Z3
PlainParts == {<<>>, <<"Z">>, <<"Z", "3">>}

PlainCount(part) == IF part = <<>> THEN 0 ELSE IF Len(part) = 1 THEN 1 ELSE 3

IsotopeFormula(before, count, after) ==
    before \o <<"H", "[", "2", "]">> \o (IF count = 0 THEN <<>> ELSE <<"3">>) \o after

\* C20: a formula in which an element is followed by a fixed isotope in
\* brackets, with or without a count and at any position, parses to a
\* composition whose entry for (element, isotope) has the given count, 1
\* when the count is omitted, with all other entries as written.
C20_BracketedIsotopeParses ==
    \A before \in PlainParts, after \in PlainParts, count \in {0, 3} :
        parsed.string = IsotopeFormula(before, count, after)
            => /\ parsed.result.kind = "Ok"
               /\ \A s \in {ElementSpecification("H", 2), ElementSpecification("H", 0),
                              ElementSpecification("Z", 0)} :
                      MapGet(parsed.result.value, s) =
                          IF s.element = "H"
                          THEN (IF s.isotope = 2 THEN (IF count = 0 THEN 1 ELSE count) ELSE 0)
                          ELSE PlainCount(before) + PlainCount(after)

(***************************************************************************)
(* poisson_approximate_n_peaks_of over all of f64: a call with a mass and  *)
(* a threshold of any class, then the turns of its loop one by one.        *)
(***************************************************************************)
InitPoisson ==
    /\ IdleComp
    /\ IdlePattern
    /\ IdleBrain
    /\ IdleCache

\* poisson_approximate_n_peaks_of(mass, threshold) up to the loop:
\* lambda = mass / LAMBDA_FACTOR and target_threshold = 1.0 - threshold
PoissonCall(mass, threshold) ==
    /\ poisson.status # "running"
    /\ \E lambda \in ClassDiv(mass, "pos"),
          target_threshold \in ClassAdd("pos", ClassNeg(threshold)) :
           poisson' = [mass |-> mass, threshold |-> threshold, status |-> "running",
                       loop |-> PoissonStart(lambda, target_threshold)]
    /\ UNCHANGED otherThanPoisson

\* the next turn of the loop of the call under way, max_iter being 255
PoissonIterate ==
    /\ poisson.status = "running"
    /\ \E next \in PoissonStep(poisson.loop, 255) :
           poisson' = [poisson EXCEPT !.loop = next,
                                      !.status = IF next.n = <<>> THEN "running"
                                                 ELSE "returned"]
    /\ UNCHANGED otherThanPoisson

NextPoisson ==
    \/ \E mass \in F64Classes, threshold \in F64Classes : PoissonCall(mass, threshold)
    \/ PoissonIterate

SpecPoisson == InitPoisson /\ [][NextPoisson]_vars

\* C21: poisson_approximate_n_peaks_of terminates for every mass and
\* threshold, mass 0 and masses that make an intermediate term infinite
\* included, after at most 255 turns of its loop, and returns n with
\* 1 <= n <= 255.
C21_PoissonTerminatesInRange ==
    /\ poisson.loop.turns <= 255
    /\ poisson.status = "running" => ENABLED PoissonIterate
    /\ poisson.status = "returned" => poisson.loop.n[1] \in 1..255

\* a call with an infinite intermediate term has returned
C21_Witness ==
    /\ poisson.status = "returned"
    /\ poisson.mass = "pos"
    /\ poisson.loop.p_i = "inf"
    /\ poisson.loop.factorial_acc = "pos"
    /\ poisson.loop.turns > 1

====
